---------------------------- MODULE Spec2Model ----------------------------
(***************************************************************************)
(* Investment intake flow: the Step Two section wizard (step-two-details), *)
(* the provider client's bearer-token cache (dealmaker.ts) and the API     *)
(* route handlers.  Money is modelled in exact cents.                       *)
(***************************************************************************)
EXTENDS Integers, Naturals, Sequences, FiniteSets, TLC

VARIABLES
    \* ---- page (src/app/page.tsx) and the props it hands to Step Two
    step,               \* 1 = Step One shown, 2 = Step Two shown
    investorId,         \* prop investorId; 0 stands for undefined / 0 (falsy)
    investorEmail,      \* prop investorEmail; "" stands for undefined / "" (falsy)
    config,             \* prop config
    initialAmount,      \* prop initialAmount (the page's selectedAmount)
    configLoaded,       \* the page's configLoaded: the config fetch has settled
    \* ---- StepTwoDetails state (useState hooks)
    amount,             \* the amount, in whole cents
    amountSide,         \* -1, 0, 1: the double lies below, at, above those cents
    shares,
    expandedSection, completedSections,
    investorType, firstName, lastName,
    jointFirstName, jointLastName, corporationName, trustName,
    isSubmitting, submitError, submitSuccess,
    contactErrors, contactTouched,
    \* ---- environment of the wizard
    inflight,           \* TRUE while the request of the wizard on screen awaits its response
    orphaned,           \* requests awaiting a response whose wizard has unmounted
    location,           \* window.location.href after a redirect, "" before
    \* ---- server process (src/lib/dealmaker.ts and the route handlers)
    env,                \* process.env: which of the three settings are set
    now,                \* Date.now() in milliseconds
    cachedToken,        \* the module-level cache slot, NoToken (null) when empty
    call,               \* the dmFetch invocation of each caller
    h,                  \* the route handler invocation being served
    \* ---- StepOneInvest state (useState hooks); stepOneAmount is its `amount`
    stepOneAmount, displayMode, rawInput, isInputFocused,
    \* ---- one evaluation of the investment math
    mathIn,             \* the arguments
    mathOut             \* the function applied and its result

stepOneVars == <<stepOneAmount, displayMode, rawInput, isInputFocused>>
mathVars == <<mathIn, mathOut>>

wizardVars == <<stepOneVars, mathVars, configLoaded, step, investorId, investorEmail, config, initialAmount, amount, amountSide, shares,
                expandedSection, completedSections, investorType, firstName,
                lastName, jointFirstName, jointLastName, corporationName,
                trustName, isSubmitting, submitError, submitSuccess,
                contactErrors, contactTouched, inflight, orphaned, location>>

serverVars == <<env, now, cachedToken, call, h>>

vars == <<wizardVars, serverVars>>

-----------------------------------------------------------------------------
(* Bounds of the model *)

\* concurrent provider requests of the token specification
NumCallers == 2
\* clock ticks of the token specification
MaxTicks == 3

-----------------------------------------------------------------------------
(* Investment configuration and math (cents) *)

FALLBACK_CONFIG ==
    [ sharePrice |-> 85,
      minInvestment |-> 99875,
      maxInvestment |-> 0,          \* 0: no maximum configured (undefined)
      investorFeePercent |-> 2,
      presetAmounts |-> <<250070, 500055, 1000025, 2500025, 5000050, 10000015, 25000025>>,
      volumeTiers |-> << [threshold |-> 2500000, bonusPercent |-> 15],
                         [threshold |-> 1000000, bonusPercent |-> 10],
                         [threshold |-> 500000,  bonusPercent |-> 5] >> ]

\* A configuration as the deal endpoint may deliver it: with a maximum.
CappedConfig == [FALLBACK_CONFIG EXCEPT !.maxInvestment = 5000000]

Configs == {FALLBACK_CONFIG, CappedConfig}

\* ---- amount / sharePrice in IEEE-754 binary64
\* Amounts and prices are whole cents; the code divides the doubles nearest to
\* their dollar values.  When the amount is not a whole multiple of the price
\* the quotient lies at least 1/price away from an integer and floor and ceil
\* are those of the exact quotient.  When it is a whole multiple n, the double
\* quotient is n or a double next to n (11.05 / 0.85 = 13.000000000000002,
\* 0.3 / 0.1 = 2.9999999999999996), and which one follows from the rounding
\* errors of the two operands.  The double nearest c/100 is M / 2^scale(c) with
\* 2^52 <= M <= 2^53, and 100 * M - c * 2^scale(c) is its error.  All numbers
\* stay below 2^31 for quotients below 2^24.

absInt(x) == IF x < 0 THEN -x ELSE x

RECURSIVE pow2(_)
pow2(s) == IF s = 0 THEN 1 ELSE 2 * pow2(s - 1)

\* the greatest k with 2^k <= n, for n >= 1
RECURSIVE log2Floor(_)
log2Floor(n) == IF n < 2 THEN 0 ELSE 1 + log2Floor(n \div 2)

\* the binary exponent of c/100 (c >= 1 hundredths) and the scale of its
\* mantissa; below 1 the exponent is minus the least t with c * 2^t >= 100
binade(c) ==
    LET RECURSIVE doublingsTo100(_)
        doublingsTo100(x) == IF x >= 100 THEN 0 ELSE 1 + doublingsTo100(2 * x)
    IN  IF c >= 100 THEN log2Floor(c \div 100) ELSE -doublingsTo100(c)
scale(c) == 52 - binade(c)

\* 2^e modulo m
RECURSIVE pow2mod(_, _)
pow2mod(e, m) == IF e = 0 THEN 1 ELSE (2 * pow2mod(e - 1, m)) % m

\* 100 * M - c * 2^scale(c): above 0 when the double lies above c/100.  A tie
\* (50) cannot occur, c * 2^scale(c) being a multiple of 4.
mantissaError(c) ==
    LET t == ((c % 100) * pow2mod(scale(c), 100)) % 100
    IN  IF t < 50 THEN -t ELSE 100 - t

\* For a = n * p (a, p >= 1 hundredths, n >= 1): -1, 0 or 1 as the double
\* quotient (a/100) / (p/100) lies below n, is n, or lies above n.  It rounds
\* below n when the quotient of the two doubles is less than n minus half the
\* distance to the double before n, above n when it is more than n plus half
\* the distance to the double after n; a tie rounds to n, whose mantissa is even.
quotientSide(a, p) ==
    LET n  == a \div p
        k  == log2Floor(n)
        f  == scale(p)
        g  == scale(p) - scale(a)
        rx == mantissaError(a)
        ry == mantissaError(p)
        hb == IF n = pow2(k) THEN k - 54 ELSE k - 53
        wb == IF f + hb < 0 THEN -(f + hb) ELSE 0
        ha == k - 53
        wa == IF f + ha < 0 THEN -(f + ha) ELSE 0
        below == IF ry < 0
                 THEN rx * pow2(g + wb) <= n * ry * pow2(wb) - p * pow2(f + hb + wb)
                 ELSE rx * pow2(g + wb) <  n * ry * pow2(wb) - p * pow2(f + hb + wb)
        above == IF ry > 0
                 THEN rx * pow2(g + wa) >= n * ry * pow2(wa) + p * pow2(f + ha + wa)
                 ELSE rx * pow2(g + wa) >  n * ry * pow2(wa) + p * pow2(f + ha + wa)
    IN  IF below THEN -1 ELSE IF above THEN 1 ELSE 0

\* Math.floor(|amt| / |price|) and Math.ceil(|amt| / |price|), price # 0
magnitudeFloor(amt, price) ==
    LET a == absInt(amt)
        p == absInt(price)
    IN  IF a > 0 /\ a % p = 0 /\ quotientSide(a, p) = -1 THEN (a \div p) - 1
        ELSE a \div p

magnitudeCeil(amt, price) ==
    LET a == absInt(amt)
        p == absInt(price)
    IN  IF a = 0 THEN 0
        ELSE IF a % p # 0 THEN (a \div p) + 1
        ELSE IF quotientSide(a, p) = 1 THEN (a \div p) + 1
        ELSE a \div p

\* Math.floor(amount / sharePrice), sharePrice # 0: a quotient below 0 is
\* floored away from 0
floorQuotient(amt, price) ==
    IF amt # 0 /\ ((amt < 0) # (price < 0)) THEN -magnitudeCeil(amt, price)
    ELSE magnitudeFloor(amt, price)

\* Math.ceil(amount / sharePrice), sharePrice # 0: a quotient below 0 is
\* rounded towards 0
ceilQuotient(amt, price) ==
    IF amt # 0 /\ ((amt < 0) # (price < 0)) THEN -magnitudeFloor(amt, price)
    ELSE magnitudeCeil(amt, price)

\* For n * b = 100 * m (n, b, m >= 1): -1, 0 or 1 as the double product
\* n * (b / 100) lies below m, is m, or lies above m.  The product of n and the
\* double nearest b/100 is rounded once; it differs from m by
\* n * mantissaError(b) / (100 * 2^scale(b)).
productSide(n, b) ==
    LET m  == (n * b) \div 100
        k  == log2Floor(m)
        f  == scale(b)
        ry == mantissaError(b)
        hb == IF m = pow2(k) THEN k - 54 ELSE k - 53
        ha == k - 53
        \* v > 100 * 2^(f + half)
        beyond(v, half) == IF f + half >= 24 THEN FALSE
                           ELSE IF f + half >= 0 THEN v > 100 * pow2(f + half)
                           ELSE v * pow2(-(f + half)) > 100
    IN  IF beyond(-(n * ry), hb) THEN -1
        ELSE IF beyond(n * ry, ha) THEN 1
        ELSE 0

\* numValue * sharePrice in doubles against the double of the whole cents the
\* product has in exact arithmetic: -1, 0 or 1 as it lies below it, is it, or
\* lies above it (9 * 0.85 = 7.6499999999999995).  The product is rounded
\* once; a tie goes to the even mantissa.
productSideOfCents(numValue, sharePrice) ==
    IF numValue = 0 \/ sharePrice = 0 THEN 0 ELSE
    LET n  == absInt(numValue)
        p  == absInt(sharePrice)
        c  == n * p
        g  == scale(p) - scale(c)
        d  == n * mantissaError(p) - mantissaError(c) * pow2(g)
        half == 50 * pow2(g)
        \* 100 * M of the double nearest c/100, modulo 200: M is odd at 100
        odd == (((c % 200) * pow2mod(scale(c), 200)) + mantissaError(c)) % 200 = 100
        side == IF absInt(d) < half \/ (absInt(d) = half /\ ~odd) THEN 0
                ELSE IF d > 0 THEN 1 ELSE -1
    IN  IF (numValue < 0) # (sharePrice < 0) THEN -side ELSE side

\* Math.floor(baseShares * (bonusPercent / 100)), bonusPercent >= 0
floorOfPercent(baseShares, bonusPercent) ==
    LET m == (baseShares * bonusPercent) \div 100
    IN  IF (baseShares * bonusPercent) % 100 # 0 \/ m = 0 THEN m
        ELSE IF baseShares > 0 /\ productSide(baseShares, bonusPercent) = -1 THEN m - 1
        ELSE IF baseShares < 0 /\ productSide(-baseShares, bonusPercent) = 1 THEN m - 1
        ELSE m

\* for (const tier of volumeTiers) if (amount >= tier.threshold) { ...; break }
RECURSIVE FirstTierAtOrBelow(_, _, _)
FirstTierAtOrBelow(tiers, amt, i) ==
    IF i > Len(tiers) THEN 0
    ELSE IF amt >= tiers[i].threshold THEN tiers[i].bonusPercent
    ELSE FirstTierAtOrBelow(tiers, amt, i + 1)

\* A quotient that is not a whole number of cents, kept as a fraction
ratio(num, den) == [num |-> num, den |-> den]

\* calculateInvestment at sharePrice 0: amount / 0 is Infinity, -Infinity or
\* NaN (0 / 0), Infinity * 0 is NaN, and a number of shares that is NaN is not
\* above 0.  The numbers that are not finite are written by their names.
calculationAtPriceZero(amt, cfg) ==
    LET baseShares   == IF amt > 0 THEN "Infinity"
                        ELSE IF amt < 0 THEN "-Infinity" ELSE "NaN"
        bonusPercent == FirstTierAtOrBelow(cfg.volumeTiers, amt, 1)
        bonusShares  == IF amt = 0 \/ bonusPercent = 0 THEN "NaN" ELSE baseShares
        totalShares  == bonusShares
    IN  [ amount |-> amt,
          baseShares |-> baseShares,
          bonusPercent |-> bonusPercent,
          bonusShares |-> bonusShares,
          totalShares |-> totalShares,
          effectiveSharePrice |-> ratio(0, 1),
          investorFee |-> "NaN",
          totalWithFee |-> "NaN" ]

\* cfg needs sharePrice, investorFeePercent and volumeTiers (bonusPercent >= 0).
\* The fee and the total with fee are in hundredths of a cent.
calculateInvestment(amt, cfg) ==
    IF cfg.sharePrice = 0 THEN calculationAtPriceZero(amt, cfg) ELSE
    LET baseShares   == floorQuotient(amt, cfg.sharePrice)
        bonusPercent == FirstTierAtOrBelow(cfg.volumeTiers, amt, 1)
        bonusShares  == floorOfPercent(baseShares, bonusPercent)
        totalShares  == baseShares + bonusShares
        investorFee  == baseShares * cfg.sharePrice * cfg.investorFeePercent
    IN  [ amount |-> amt,
          baseShares |-> baseShares,
          bonusPercent |-> bonusPercent,
          bonusShares |-> bonusShares,
          totalShares |-> totalShares,
          effectiveSharePrice |-> IF totalShares > 0 THEN ratio(amt, totalShares)
                                  ELSE ratio(cfg.sharePrice, 1),
          investorFee |-> ratio(investorFee, 100),
          totalWithFee |-> [cents |-> amt + (investorFee \div 100),
                            hundredths |-> investorFee % 100] ]

\* [...volumeTiers].sort((a, b) => a.threshold - b.threshold): a stable sort
RECURSIVE insertByThreshold(_, _)
insertByThreshold(tier, sorted) ==
    IF sorted = <<>> THEN <<tier>>
    ELSE IF tier.threshold <= Head(sorted).threshold THEN <<tier>> \o sorted
    ELSE <<Head(sorted)>> \o insertByThreshold(tier, Tail(sorted))

RECURSIVE sortByThreshold(_)
sortByThreshold(tiers) ==
    IF tiers = <<>> THEN <<>>
    ELSE insertByThreshold(Head(tiers), sortByThreshold(Tail(tiers)))

\* the first tier of the list that the amount is below, as a list of at most
\* one result (<<>> is null)
RECURSIVE firstTierAbove(_, _)
firstTierAbove(tiers, amt) ==
    IF tiers = <<>> THEN <<>>
    ELSE IF amt < Head(tiers).threshold
         THEN << [ threshold |-> Head(tiers).threshold,
                   bonusPercent |-> Head(tiers).bonusPercent,
                   amountNeeded |-> Head(tiers).threshold - amt ] >>
         ELSE firstTierAbove(Tail(tiers), amt)

\* Mutant of getNextTierInfo: the tiers are scanned in the order given.
getNextTierInfoUnsorted(amt, cfg) == firstTierAbove(cfg.volumeTiers, amt)

getNextTierInfo(amt, cfg) == firstTierAbove(sortByThreshold(cfg.volumeTiers), amt)

\* parseFloat((shares * sharePrice).toFixed(2)): the product of a share count
\* and a price in cents is a whole number of cents, which toFixed(2) keeps.
alignToSharePrice(amt, sharePrice) ==
    IF sharePrice <= 0 \/ amt <= 0 THEN amt
    ELSE ceilQuotient(amt, sharePrice) * sharePrice

\* ---- arguments the investment math is evaluated on

\* volumeTiers as a deal configuration may list them: the built-in list
\* (descending), the same tiers ascending and mixed, one tier of 29 percent
\* from 50.00, and no tiers
TierLists ==
    { FALLBACK_CONFIG.volumeTiers,
      << [threshold |-> 500000,  bonusPercent |-> 5],
         [threshold |-> 1000000, bonusPercent |-> 10],
         [threshold |-> 2500000, bonusPercent |-> 15] >>,
      << [threshold |-> 1000000, bonusPercent |-> 10],
         [threshold |-> 2500000, bonusPercent |-> 15],
         [threshold |-> 500000,  bonusPercent |-> 5] >>,
      << [threshold |-> 5000, bonusPercent |-> 29] >>,
      <<>> }

\* amounts in cents: zero, below one share, a hundred shares, around the tier
\* thresholds, the built-in presets, and a negative amount
MathAmounts ==
    { -500, 0, 30, 84, 1021, 1105, 8500, 102765, 250000, 499999, 500000, 2500000 }
       \cup {FALLBACK_CONFIG.presetAmounts[i] : i \in 1..Len(FALLBACK_CONFIG.presetAmounts)}

\* share prices in cents: the built-in 0.85, 0.10, and the degenerate 0 and -0.85
MathPrices == { 85, 10, 0, -85 }

MathInputs == [amount : MathAmounts, sharePrice : MathPrices, tiers : TierLists]

mathConfig(in) ==
    [ sharePrice |-> in.sharePrice,
      investorFeePercent |-> FALLBACK_CONFIG.investorFeePercent,
      volumeTiers |-> in.tiers ]

\* nothing evaluated yet; calc and tier hold at most one result
NoResult == [fn |-> "", calc |-> <<>>, tier |-> <<>>, aligned |-> 0]

MathAtRest ==
    /\ mathIn = [amount |-> 0, sharePrice |-> FALLBACK_CONFIG.sharePrice,
                 tiers |-> FALLBACK_CONFIG.volumeTiers]
    /\ mathOut = NoResult

-----------------------------------------------------------------------------
(* Step One (src/components/step-one-invest.tsx): texts and derived values *)

\* Text is a sequence of one-character strings.
Digits == {"0", "1", "2", "3", "4", "5", "6", "7", "8", "9"}

digitValue(c) ==
    CASE c = "0" -> 0 [] c = "1" -> 1 [] c = "2" -> 2 [] c = "3" -> 3 [] c = "4" -> 4
      [] c = "5" -> 5 [] c = "6" -> 6 [] c = "7" -> 7 [] c = "8" -> 8 [] c = "9" -> 9

digitChar(d) == CHOOSE c \in Digits : digitValue(c) = d

\* value.replace(/[^0-9.]/g, "")
RECURSIVE cleanValue(_)
cleanValue(text) ==
    IF text = <<>> THEN <<>>
    ELSE IF Head(text) \in Digits \cup {"."} THEN <<Head(text)>> \o cleanValue(Tail(text))
    ELSE cleanValue(Tail(text))

\* the longest prefix of digits
RECURSIVE leadingDigits(_)
leadingDigits(text) ==
    IF text = <<>> \/ Head(text) \notin Digits THEN <<>>
    ELSE <<Head(text)>> \o leadingDigits(Tail(text))

RECURSIVE digitsToInt(_)
digitsToInt(ds) ==
    IF ds = <<>> THEN 0
    ELSE digitsToInt(SubSeq(ds, 1, Len(ds) - 1)) * 10 + digitValue(ds[Len(ds)])

RECURSIVE dropTrailingZeros(_)
dropTrailingZeros(ds) ==
    IF ds # <<>> /\ ds[Len(ds)] = "0" THEN dropTrailingZeros(SubSeq(ds, 1, Len(ds) - 1))
    ELSE ds

\* parseFloat(cleanValue) || 0 of a text of digits and dots: the digits before
\* the first dot, then the digits between it and the next dot.  The number is
\* kept as its whole part and its decimals (without trailing zeros), which is
\* the value of the double for texts of at most 15 significant digits.  NaN (no
\* digit) gives 0.
parseFloatOr0(text) ==
    LET whole == leadingDigits(text)
        rest  == SubSeq(text, Len(whole) + 1, Len(text))
        frac  == IF rest # <<>> /\ Head(rest) = "." THEN leadingDigits(Tail(rest)) ELSE <<>>
    IN  [units |-> digitsToInt(whole), decimals |-> dropTrailingZeros(frac)]

\* the whole cents of a parsed number
centsOf(num) ==
    num.units * 100
      + (IF Len(num.decimals) >= 1 THEN digitValue(num.decimals[1]) * 10 ELSE 0)
      + (IF Len(num.decimals) >= 2 THEN digitValue(num.decimals[2]) ELSE 0)

\* alignToSharePrice of a parsed number.  A number that exceeds its whole
\* cents c (by less than a cent) has a quotient strictly between c / sharePrice
\* and (c + 1) / sharePrice, so its ceil is one above the whole part of
\* c / sharePrice; with sharePrice <= 0 the number is returned as it was typed.
alignTyped(num, sharePrice) ==
    IF Len(num.decimals) <= 2 THEN alignToSharePrice(centsOf(num), sharePrice)
    ELSE IF sharePrice <= 0 THEN num
    ELSE ((centsOf(num) \div sharePrice) + 1) * sharePrice

\* Number.prototype.toString of a whole number >= 0
RECURSIVE intToString(_)
intToString(n) ==
    IF n < 10 THEN <<digitChar(n)>>
    ELSE intToString(n \div 10) \o <<digitChar(n % 10)>>

\* amount.toString() of a dollar amount given in cents: no trailing zeros
amountToString(c) ==
    CASE c % 100 = 0 -> intToString(c \div 100)
      [] c % 10 = 0 -> intToString(c \div 100) \o <<".", digitChar((c % 100) \div 10)>>
      [] OTHER -> intToString(c \div 100)
                     \o <<".", digitChar((c % 100) \div 10), digitChar(c % 10)>>

\* Math.max(0, Math.round(numValue)) of a parsed number: halves round up
wholeSharesOf(numValue) ==
    IF numValue.decimals # <<>> /\ digitValue(numValue.decimals[1]) >= 5
    THEN numValue.units + 1
    ELSE numValue.units

isAboveMin == stepOneAmount >= config.minInvestment
isBelowMax == config.maxInvestment = 0 \/ stepOneAmount <= config.maxInvestment

\* Mutant of isValidAmount: the maximum is not looked at.
isValidAmountNoMax == isAboveMin

isValidAmount == isAboveMin /\ isBelowMax

nextTier == getNextTierInfo(stepOneAmount, config)

\* Mutant of showUpsell: the gap to the next tier is not looked at.
showUpsellAnyGap == nextTier # <<>> /\ stepOneAmount < 2500000

\* nextTier && nextTier.amountNeeded <= 2000 && amount < 25000
showUpsell ==
    nextTier # <<>> /\ nextTier[1].amountNeeded <= 200000 /\ stepOneAmount < 2500000

\* useState initialisers of StepOneInvest, mounted with initialAmount = initial
\* useState(initialAmount || config.presetAmounts[0])
mountAmount(initial, cfg) == IF initial # 0 THEN initial ELSE cfg.presetAmounts[1]

\* StepOneInvest as it mounts
StepOneFresh ==
    /\ stepOneAmount = mountAmount(initialAmount, config)
    /\ displayMode = "dollars" /\ rawInput = <<>> /\ isInputFocused = FALSE

\* StepOneInvest unmounts, or mounts again: its state is what a mount gives
stepOneMounts ==
    /\ stepOneAmount' = mountAmount(initialAmount', config')
    /\ displayMode' = "dollars" /\ rawInput' = <<>> /\ isInputFocused' = FALSE

\* Values of the main input after a keystroke or a paste
TypedTexts ==
    { <<>>, <<".">>, <<"9", "9", "8">>, <<"1", "0", "2", "7", ".", "6", "5">>,
      <<"$", "2", ",", "5", "0", "0">>, <<"4", "5", "0", "0">>,
      <<"6", "0", "0", "0", "0">> }

-----------------------------------------------------------------------------
(* Step Two wizard *)

sectionOrder == <<"investment", "contact", "confirmation", "payment">>
Sections == {sectionOrder[i] : i \in 1..Len(sectionOrder)}
indexOf(s) == CHOOSE i \in 1..Len(sectionOrder) : sectionOrder[i] = s

InvestorTypes == {"individual", "joint", "corporation", "trust"}

\* Text a user may leave in a name field: empty, white space only (a space and
\* a line tabulation, U+000B), a name.
Names == {"", " ", "Al"}

\* White space that String.prototype.trim removes: space, tab, line feed, form
\* feed, carriage return, line tabulation (U+000B), no-break space (U+00A0),
\* ogham space mark (U+1680) and the byte order mark (U+FEFF).  The rest of the
\* set (U+2000..U+200A, U+2028, U+2029, U+202F, U+205F, U+3000) cannot be
\* written in a string of this module and occurs in none of its inputs.
WhiteSpace == {" ", "\t", "\n", "\f", "\r", "", " ", " ", "﻿"}

\* String.prototype.trim: the white space at both ends is removed
trim(s) ==
    LET RECURSIVE trimStart(_)
        trimStart(t) == IF t # "" /\ Head(t) \in WhiteSpace THEN trimStart(Tail(t)) ELSE t
        RECURSIVE trimEnd(_)
        trimEnd(t) ==
            IF t # "" /\ SubSeq(t, Len(t), Len(t)) \in WhiteSpace
            THEN trimEnd(SubSeq(t, 1, Len(t) - 1))
            ELSE t
    IN  trimEnd(trimStart(s))

\* Values a user may leave in the amount and the shares inputs.
TypedAmounts == {99874, 5000000, 5000001}
TypedShares == {1175}
InitialAmounts == {250070}
InvestorIdProps == {0, 41}
InvestorEmailProps == {"", "a@b.co"}

\* A field the request body does not carry.
Undefined == "undefined"

FirstNameRequired == "First name is required"
LastNameRequired == "Last name is required"
CompleteFallbackError == "Failed to complete investment. Please try again."
NetworkError == "Network error. Please check your connection and try again."
\* Bodies the completion endpoint may answer with.
EndpointErrors == {"", "Missing required fields."}
PaymentUrls == {"", "https://pay.example/otp"}

includes(seq, s) == \E i \in 1..Len(seq) : seq[i] = s

\* Mutant of Guard: the guard is rendered only when both props are missing.
GuardNeedsBothMissing == investorId = 0 /\ investorEmail = ""

\* StepTwoDetails renders the guard instead of the wizard.
Guard == investorId = 0 \/ investorEmail = ""

\* The wizard proper is on screen: Step Two is shown, it is not the guard, and
\* the page has not been left by a redirect.
Mounted == step = 2 /\ ~Guard /\ location = ""

isSectionAccessible(section) ==
    \/ includes(completedSections, section)
    \/ \A i \in 1..(indexOf(section) - 1) : includes(completedSections, sectionOrder[i])

isSectionComplete(section) == includes(completedSections, section)

\* Mutant of isContactComplete: the type-specific fields are not looked at.
isContactCompleteBaseOnly == trim(firstName) # "" /\ trim(lastName) # ""

isContactComplete ==
    LET baseComplete == trim(firstName) # "" /\ trim(lastName) # ""
    IN  IF ~baseComplete THEN FALSE
        ELSE CASE investorType = "joint" -> trim(jointFirstName) # "" /\ trim(jointLastName) # ""
               [] investorType = "corporation" -> trim(corporationName) # ""
               [] investorType = "trust" -> trim(trustName) # ""
               [] OTHER -> TRUE

\* amount < limit and amount > limit, the limit being a whole number of cents
amountBelow(limit) == amount < limit \/ (amount = limit /\ amountSide < 0)
amountAbove(limit) == amount > limit \/ (amount = limit /\ amountSide > 0)

\* disabled attribute of the Investment section's Continue button, negated
investmentContinueEnabled ==
    ~(amountBelow(config.minInvestment)
        \/ (config.maxInvestment # 0 /\ amountAbove(config.maxInvestment)))

WizardInit ==
    /\ step = 2 /\ configLoaded = TRUE
    /\ investorId \in InvestorIdProps
    /\ investorEmail \in InvestorEmailProps
    /\ config \in Configs
    /\ initialAmount \in InitialAmounts
    /\ amount = initialAmount /\ amountSide = 0
    /\ shares = calculateInvestment(amount, config).baseShares
    /\ expandedSection = "investment"
    /\ completedSections = <<>>
    /\ investorType = "individual"
    /\ firstName = "" /\ lastName = ""
    /\ jointFirstName = "" /\ jointLastName = ""
    /\ corporationName = "" /\ trustName = ""
    /\ isSubmitting = FALSE /\ submitError = "" /\ submitSuccess = FALSE
    /\ contactErrors = [firstName |-> "", lastName |-> ""]
    /\ contactTouched = [firstName |-> FALSE, lastName |-> FALSE]
    /\ inflight = FALSE /\ orphaned = 0
    /\ location = ""
    /\ StepOneFresh
    /\ MathAtRest

\* Mutant of completedAfterContinue: the new list holds the current section only.
completedAfterContinueReplaces(currentSection) ==
    IF ~includes(completedSections, currentSection)
    THEN <<currentSection>>
    ELSE completedSections

\* setCompletedSections / setExpandedSection of handleSectionContinue
completedAfterContinue(currentSection) ==
    IF ~includes(completedSections, currentSection)
    THEN Append(completedSections, currentSection)
    ELSE completedSections

expandedAfterContinue(currentSection) ==
    IF indexOf(currentSection) < Len(sectionOrder)
    THEN sectionOrder[indexOf(currentSection) + 1]
    ELSE expandedSection

handleSectionContinue(currentSection) ==
    /\ completedSections' = completedAfterContinue(currentSection)
    /\ expandedSection' = expandedAfterContinue(currentSection)

contactFields == <<firstName, lastName, jointFirstName, jointLastName,
                   corporationName, trustName>>
contactState == <<investorType, contactFields, contactErrors, contactTouched>>
submitState == <<isSubmitting, submitError, submitSuccess, inflight, orphaned, location>>
\* what no handler of the mounted wizard changes: the page, the props, the server
propVars == <<step, investorId, investorEmail, config, initialAmount, serverVars,
              stepOneVars, mathVars, configLoaded>>

\* Mutant of ToggleSection: every header opens its section, accessible or not.
ToggleSectionUnchecked(section) ==
    /\ Mounted
    /\ expandedSection' = section
    /\ UNCHANGED <<propVars, amount, amountSide, shares, completedSections, contactState, submitState>>

\* Header button of a section: onClick={() => toggleSection(section)}
ToggleSection(section) ==
    /\ Mounted
    /\ section = "investment" \/ isSectionAccessible(section)   \* not disabled
    /\ expandedSection' = IF isSectionAccessible(section) THEN section ELSE expandedSection
    /\ UNCHANGED <<propVars, amount, amountSide, shares, completedSections, contactState, submitState>>

\* Amount input of the Investment section
HandleAmountChange(numValue) ==
    /\ Mounted /\ expandedSection = "investment"
    /\ amount' = numValue /\ amountSide' = 0
    /\ shares' = calculateInvestment(numValue, config).baseShares
    /\ UNCHANGED <<propVars, expandedSection, completedSections, contactState, submitState>>

\* Shares input of the Investment section
HandleSharesChange(numValue) ==
    /\ Mounted /\ expandedSection = "investment"
    /\ shares' = numValue
    /\ amount' = numValue * config.sharePrice
    /\ amountSide' = productSideOfCents(numValue, config.sharePrice)
    /\ UNCHANGED <<propVars, expandedSection, completedSections, contactState, submitState>>

\* Continue button of the Investment section
InvestmentContinue ==
    /\ Mounted /\ expandedSection = "investment"
    /\ investmentContinueEnabled
    /\ handleSectionContinue("investment")
    /\ UNCHANGED <<propVars, amount, amountSide, shares, contactState, submitState>>

\* Mutant of InvestorTypeChange: the first name survives the change of type.
InvestorTypeChangeKeepsFirstName(t) ==
    /\ Mounted /\ expandedSection = "contact"
    /\ t # investorType
    /\ investorType' = t
    /\ lastName' = ""
    /\ jointFirstName' = "" /\ jointLastName' = ""
    /\ corporationName' = "" /\ trustName' = ""
    /\ contactErrors' = [firstName |-> "", lastName |-> ""]
    /\ contactTouched' = [firstName |-> FALSE, lastName |-> FALSE]
    /\ UNCHANGED <<propVars, amount, amountSide, shares, expandedSection, completedSections,
                   firstName, submitState>>

\* Investor-type selector of the Contact section
InvestorTypeChange(t) ==
    /\ Mounted /\ expandedSection = "contact"
    /\ t # investorType
    /\ investorType' = t
    /\ firstName' = "" /\ lastName' = ""
    /\ jointFirstName' = "" /\ jointLastName' = ""
    /\ corporationName' = "" /\ trustName' = ""
    /\ contactErrors' = [firstName |-> "", lastName |-> ""]
    /\ contactTouched' = [firstName |-> FALSE, lastName |-> FALSE]
    /\ UNCHANGED <<propVars, amount, amountSide, shares, expandedSection, completedSections, submitState>>

FirstNameChange(v) ==
    /\ Mounted /\ expandedSection = "contact"
    /\ v # firstName
    /\ firstName' = v
    /\ contactErrors' = IF contactTouched.firstName
                        THEN [contactErrors EXCEPT !.firstName =
                                 IF trim(v) # "" THEN "" ELSE FirstNameRequired]
                        ELSE contactErrors
    /\ UNCHANGED <<propVars, amount, amountSide, shares, expandedSection, completedSections,
                   investorType, lastName, jointFirstName, jointLastName,
                   corporationName, trustName, contactTouched, submitState>>

FirstNameBlur ==
    /\ Mounted /\ expandedSection = "contact"
    /\ contactTouched' = [contactTouched EXCEPT !.firstName = TRUE]
    /\ contactErrors' = IF trim(firstName) = ""
                        THEN [contactErrors EXCEPT !.firstName = FirstNameRequired]
                        ELSE contactErrors
    /\ UNCHANGED <<propVars, amount, amountSide, shares, expandedSection, completedSections,
                   investorType, contactFields, submitState>>

LastNameChange(v) ==
    /\ Mounted /\ expandedSection = "contact"
    /\ v # lastName
    /\ lastName' = v
    /\ contactErrors' = IF contactTouched.lastName
                        THEN [contactErrors EXCEPT !.lastName =
                                 IF trim(v) # "" THEN "" ELSE LastNameRequired]
                        ELSE contactErrors
    /\ UNCHANGED <<propVars, amount, amountSide, shares, expandedSection, completedSections,
                   investorType, firstName, jointFirstName, jointLastName,
                   corporationName, trustName, contactTouched, submitState>>

LastNameBlur ==
    /\ Mounted /\ expandedSection = "contact"
    /\ contactTouched' = [contactTouched EXCEPT !.lastName = TRUE]
    /\ contactErrors' = IF trim(lastName) = ""
                        THEN [contactErrors EXCEPT !.lastName = LastNameRequired]
                        ELSE contactErrors
    /\ UNCHANGED <<propVars, amount, amountSide, shares, expandedSection, completedSections,
                   investorType, contactFields, submitState>>

JointFirstNameChange(v) ==
    /\ Mounted /\ expandedSection = "contact" /\ investorType = "joint"
    /\ v # jointFirstName
    /\ jointFirstName' = v
    /\ UNCHANGED <<propVars, amount, amountSide, shares, expandedSection, completedSections,
                   investorType, firstName, lastName, jointLastName, corporationName,
                   trustName, contactErrors, contactTouched, submitState>>

JointLastNameChange(v) ==
    /\ Mounted /\ expandedSection = "contact" /\ investorType = "joint"
    /\ v # jointLastName
    /\ jointLastName' = v
    /\ UNCHANGED <<propVars, amount, amountSide, shares, expandedSection, completedSections,
                   investorType, firstName, lastName, jointFirstName, corporationName,
                   trustName, contactErrors, contactTouched, submitState>>

CorporationNameChange(v) ==
    /\ Mounted /\ expandedSection = "contact" /\ investorType = "corporation"
    /\ v # corporationName
    /\ corporationName' = v
    /\ UNCHANGED <<propVars, amount, amountSide, shares, expandedSection, completedSections,
                   investorType, firstName, lastName, jointFirstName, jointLastName,
                   trustName, contactErrors, contactTouched, submitState>>

TrustNameChange(v) ==
    /\ Mounted /\ expandedSection = "contact" /\ investorType = "trust"
    /\ v # trustName
    /\ trustName' = v
    /\ UNCHANGED <<propVars, amount, amountSide, shares, expandedSection, completedSections,
                   investorType, firstName, lastName, jointFirstName, jointLastName,
                   corporationName, contactErrors, contactTouched, submitState>>

\* errors object built by validateContact
validateContactErrors ==
    [ firstName |-> IF trim(firstName) = "" THEN FirstNameRequired ELSE "",
      lastName  |-> IF trim(lastName) = "" THEN LastNameRequired ELSE "" ]

validateContact == validateContactErrors = [firstName |-> "", lastName |-> ""]

\* Continue button of the Contact section
ContactContinue ==
    /\ Mounted /\ expandedSection = "contact"
    /\ isContactComplete                                  \* not disabled
    /\ contactErrors' = validateContactErrors
    /\ contactTouched' = [firstName |-> TRUE, lastName |-> TRUE]
    /\ IF validateContact
       THEN handleSectionContinue("contact")
       ELSE UNCHANGED <<expandedSection, completedSections>>
    /\ UNCHANGED <<propVars, amount, amountSide, shares, investorType, contactFields, submitState>>

\* "I Confirm & Continue" button of the Confirmation section
ConfirmationContinue ==
    /\ Mounted /\ expandedSection = "confirmation"
    /\ handleSectionContinue("confirmation")
    /\ UNCHANGED <<propVars, amount, amountSide, shares, contactState, submitState>>

\* const [email] = useState(investorEmail || ""); the input is read-only
email == investorEmail

\* body of the POST to /api/investor/complete
completeRequestBody ==
    [ investorId |-> investorId,
      email |-> email,
      firstName |-> firstName,
      lastName |-> lastName,
      investorType |-> investorType,
      jointFirstName |-> IF investorType = "joint" THEN jointFirstName ELSE Undefined,
      jointLastName |-> IF investorType = "joint" THEN jointLastName ELSE Undefined,
      corporationName |-> IF investorType = "corporation" THEN corporationName ELSE Undefined,
      trustName |-> IF investorType = "trust" THEN trustName ELSE Undefined ]

\* the "Continue to Checkout" button is rendered and not disabled
submitButtonEnabled ==
    expandedSection = "payment" /\ ~submitSuccess /\ ~isSubmitting

\* Payment "Continue to Checkout" onClick, up to the awaited fetch
PaymentSubmit ==
    /\ Mounted
    /\ submitButtonEnabled
    /\ submitError' = ""
    /\ isSubmitting' = TRUE
    /\ inflight' = TRUE
    /\ UNCHANGED <<propVars, amount, amountSide, shares, expandedSection, completedSections,
                   contactState, submitSuccess, orphaned, location>>

\* The wizard on screen is the one that issued a request and awaits its
\* response: the state setters of the onClick reach it.  The setters of a
\* request whose wizard has unmounted reach no state, those of a later mount
\* included.
Listening == Mounted /\ inflight

\* The response that settles is the one the wizard on screen awaits, or one
\* whose wizard has unmounted.
AnswerToMounted ==
    /\ Listening
    /\ inflight' = FALSE /\ UNCHANGED orphaned

AnswerToUnmounted ==
    /\ orphaned > 0 /\ location = ""
    /\ orphaned' = orphaned - 1 /\ UNCHANGED inflight

\* Mutant of errorShown: no fallback for an empty error text.
errorShownNoFallback(err) == err

\* message shown for a non-OK response: data.error || fallback
errorShown(err) == IF err # "" THEN err ELSE CompleteFallbackError

\* The completion endpoint answers with a non-OK status and body {error: err}
CompleteNotOk(err) ==
    /\ \/ AnswerToMounted /\ submitError' = errorShown(err) /\ isSubmitting' = FALSE
       \/ AnswerToUnmounted /\ UNCHANGED <<submitError, isSubmitting>>
    /\ UNCHANGED <<propVars, amount, amountSide, shares, expandedSection, completedSections,
                   contactState, submitSuccess, location>>

\* where the client navigates on an OK response carrying paymentUrl
redirectTarget(url) == url

\* Mutant of CompleteOk: the confirmation is set whether or not a URL came back.
CompleteOkAlwaysConfirms(url) ==
    /\ location' = IF url # "" THEN redirectTarget(url) ELSE location
    /\ \/ AnswerToMounted /\ submitSuccess' = TRUE /\ isSubmitting' = FALSE
       \/ AnswerToUnmounted /\ UNCHANGED <<submitSuccess, isSubmitting>>
    /\ UNCHANGED <<propVars, amount, amountSide, shares, expandedSection, completedSections,
                   contactState, submitError>>

\* The completion endpoint answers OK with body {paymentUrl: url} ("" = null)
CompleteOk(url) ==
    /\ location' = IF url # "" THEN redirectTarget(url) ELSE location
    /\ \/ /\ AnswerToMounted
          /\ submitSuccess' = IF url # "" THEN submitSuccess ELSE TRUE
          /\ isSubmitting' = FALSE
       \/ AnswerToUnmounted /\ UNCHANGED <<submitSuccess, isSubmitting>>
    /\ UNCHANGED <<propVars, amount, amountSide, shares, expandedSection, completedSections,
                   contactState, submitError>>

\* fetch rejects, or the response body is not JSON
CompleteThrows ==
    /\ \/ AnswerToMounted /\ submitError' = NetworkError /\ isSubmitting' = FALSE
       \/ AnswerToUnmounted /\ UNCHANGED <<submitError, isSubmitting>>
    /\ UNCHANGED <<propVars, amount, amountSide, shares, expandedSection, completedSections,
                   contactState, submitSuccess, location>>

\* State of a freshly mounted StepTwoDetails (the useState initialisers)
FreshWizard ==
    /\ amount' = initialAmount' /\ amountSide' = 0
    /\ shares' = calculateInvestment(initialAmount', config').baseShares
    /\ expandedSection' = "investment"
    /\ completedSections' = <<>>
    /\ investorType' = "individual"
    /\ firstName' = "" /\ lastName' = ""
    /\ jointFirstName' = "" /\ jointLastName' = ""
    /\ corporationName' = "" /\ trustName' = ""
    /\ isSubmitting' = FALSE /\ submitError' = "" /\ submitSuccess' = FALSE
    /\ contactErrors' = [firstName |-> "", lastName |-> ""]
    /\ contactTouched' = [firstName |-> FALSE, lastName |-> FALSE]

\* handleBackToStepOne, reached from "Back to Deal" and from the guard's "Go Back":
\* the page shows Step One, StepTwoDetails unmounts and its state is discarded
\* (a request already issued stays in flight, its wizard gone).
OnBack ==
    /\ step = 2 /\ location = ""
    /\ step' = 1
    /\ inflight' = FALSE
    /\ orphaned' = IF inflight THEN orphaned + 1 ELSE orphaned
    /\ UNCHANGED <<investorId, investorEmail, config, initialAmount, location,
                   serverVars, mathVars, configLoaded>>
    /\ stepOneMounts
    /\ FreshWizard

\* ---- Step One handlers

\* what no handler of Step One changes
stepTwoState == <<amount, amountSide, shares, expandedSection, completedSections, contactState,
                  submitState>>
pageVars == <<step, investorId, investorEmail, config, initialAmount>>

\* The page renders its loading screen until the config fetch has settled, and
\* StepOneInvest's render maps over config.presetAmounts.
StepOneShown ==
    /\ step = 1 /\ location = ""
    /\ configLoaded /\ "presetAmounts" \in DOMAIN config

\* the preset buttons on screen
presetButtons ==
    IF StepOneShown
    THEN {config.presetAmounts[i] : i \in 1..Len(config.presetAmounts)}
    ELSE {}

\* A configuration that lacks one field
configWithout(cfg, field) == [k \in DOMAIN cfg \ {field} |-> cfg[k]]

\* What fetch("/api/deal").then(res => res.json()) may settle with: a rejected
\* fetch, a body that is not JSON, or a parsed body with or without a config
DealResponses ==
    {[kind |-> "rejected", data |-> <<>>], [kind |-> "unparsable", data |-> <<>>],
     [kind |-> "parsed", data |-> <<>>]}
    \cup {[kind |-> "parsed", data |-> [config |-> cfg]] :
             cfg \in Configs \cup {configWithout(CappedConfig, "presetAmounts")}}

\* the response carries data.config
hasConfig(response) == response.kind = "parsed" /\ response.data # <<>>

\* The page's effect on mount, settling: with a data.config the page sets the
\* config and then reads data.config.presetAmounts[0]; when that read throws the
\* config stays set and the selected amount does not change; catch swallows
\* every failure and finally ends the loading state, after which StepOneInvest
\* mounts.
ConfigFetchSettles(response) ==
    /\ ~configLoaded
    /\ configLoaded' = TRUE
    /\ IF hasConfig(response)
       THEN /\ config' = response.data.config
            /\ initialAmount' = IF "presetAmounts" \in DOMAIN response.data.config
                                THEN response.data.config.presetAmounts[1]
                                ELSE initialAmount
       ELSE UNCHANGED <<config, initialAmount>>
    /\ UNCHANGED <<step, investorId, investorEmail, stepTwoState, serverVars, mathVars>>
    /\ stepOneMounts

handleInputFocus ==
    /\ StepOneShown /\ ~isInputFocused
    /\ isInputFocused' = TRUE
    /\ rawInput' =
          IF displayMode = "dollars"
          THEN IF stepOneAmount > 0 THEN amountToString(stepOneAmount) ELSE <<>>
          ELSE LET baseShares == calculateInvestment(stepOneAmount, config).baseShares
               IN  IF baseShares > 0 THEN intToString(baseShares) ELSE <<>>
    /\ UNCHANGED <<stepOneAmount, displayMode, pageVars, stepTwoState, serverVars, mathVars, configLoaded>>

handleInputBlur ==
    /\ StepOneShown /\ isInputFocused
    /\ isInputFocused' = FALSE
    /\ rawInput' = <<>>
    /\ UNCHANGED <<stepOneAmount, displayMode, pageVars, stepTwoState, serverVars, mathVars, configLoaded>>

\* the committed amount after the input changed to value
amountAfterInput(value) ==
    LET numValue == parseFloatOr0(cleanValue(value))
    IN  IF displayMode = "dollars"
        THEN IF numValue.units > 0 \/ numValue.decimals # <<>>
             THEN alignTyped(numValue, config.sharePrice)
             ELSE 0
        ELSE wholeSharesOf(numValue) * config.sharePrice

handleInputChange(value) ==
    /\ StepOneShown /\ isInputFocused
    /\ rawInput' = cleanValue(value)
    /\ stepOneAmount' = amountAfterInput(value)
    /\ UNCHANGED <<displayMode, isInputFocused, pageVars, stepTwoState, serverVars, mathVars, configLoaded>>

toggleDisplayMode ==
    /\ StepOneShown
    /\ displayMode' = IF displayMode = "dollars" THEN "shares" ELSE "dollars"
    /\ isInputFocused' = FALSE
    /\ rawInput' = <<>>
    /\ UNCHANGED <<stepOneAmount, pageVars, stepTwoState, serverVars, mathVars, configLoaded>>

handlePresetClick(presetAmount) ==
    /\ StepOneShown
    /\ stepOneAmount' = presetAmount
    /\ displayMode' = "dollars"
    /\ rawInput' = IF isInputFocused THEN amountToString(presetAmount) ELSE <<>>
    /\ UNCHANGED <<isInputFocused, pageVars, stepTwoState, serverVars, mathVars, configLoaded>>

\* The upsell button, rendered when showUpsell
handleUpsellAccept ==
    /\ StepOneShown /\ showUpsell
    /\ stepOneAmount' = IF nextTier # <<>> THEN nextTier[1].threshold ELSE stepOneAmount
    /\ UNCHANGED <<displayMode, rawInput, isInputFocused, pageVars, stepTwoState,
                   serverVars, mathVars, configLoaded>>

\* The Continue buttons of Step One (disabled unless isValidAmount) call
\* onContinue(amount): page.tsx sets selectedAmount, sets investorData to the
\* second argument, which Step One does not pass, and shows Step Two, which
\* mounts with initialAmount = selectedAmount.  Step One unmounts.
handleContinueFromStepOne ==
    /\ StepOneShown /\ isValidAmount
    /\ initialAmount' = stepOneAmount
    /\ step' = 2 /\ investorId' = 0 /\ investorEmail' = ""
    /\ UNCHANGED config
    /\ FreshWizard
    /\ stepOneMounts
    /\ UNCHANGED <<inflight, orphaned, location, serverVars, mathVars, configLoaded>>

PageNext ==
    \/ handleInputFocus
    \/ handleInputBlur
    \/ \E value \in TypedTexts : handleInputChange(value)
    \/ toggleDisplayMode
    \/ \E preset \in presetButtons : handlePresetClick(preset)
    \/ handleUpsellAccept
    \/ handleContinueFromStepOne
    \/ OnBack
    \/ \E response \in DealResponses : ConfigFetchSettles(response)

WizardNext ==
    \/ \E s \in Sections : ToggleSection(s)
    \/ \E v \in TypedAmounts : HandleAmountChange(v)
    \/ \E n \in TypedShares : HandleSharesChange(n)
    \/ InvestmentContinue
    \/ \E t \in InvestorTypes : InvestorTypeChange(t)
    \/ \E v \in Names : FirstNameChange(v)
    \/ FirstNameBlur
    \/ \E v \in Names : LastNameChange(v)
    \/ LastNameBlur
    \/ \E v \in Names : JointFirstNameChange(v)
    \/ \E v \in Names : JointLastNameChange(v)
    \/ \E v \in Names : CorporationNameChange(v)
    \/ \E v \in Names : TrustNameChange(v)
    \/ ContactContinue
    \/ ConfirmationContinue
    \/ PaymentSubmit
    \/ \E e \in EndpointErrors : CompleteNotOk(e)
    \/ \E u \in PaymentUrls : CompleteOk(u)
    \/ CompleteThrows
    \/ OnBack

-----------------------------------------------------------------------------
(* Provider client: token cache and dmFetch (src/lib/dealmaker.ts) *)

\* cachedToken.expiresAt - 60_000
RefreshMarginMs == 60000
\* milliseconds the clock advances per tick
TickMs == 30 * 1000
\* expires_in (seconds) values the token endpoint may answer with
ExpiresIn == {60, 120}
\* access_token values the token endpoint may answer with
Tokens == {"tokA", "tokB"}

NoToken == [token |-> "", expiresAt |-> -1]
Envs == [clientId : BOOLEAN, clientSecret : BOOLEAN, dealId : BOOLEAN]

\* Mutant of isDealmakerConfigured: the deal id is not looked at.
isDealmakerConfiguredIgnoresDealId == env.clientId /\ env.clientSecret

isDealmakerConfigured == env.clientId /\ env.clientSecret /\ env.dealId

\* Slot 0 is the route handler modelled step by step; slots 1..NumCallers are
\* provider requests made concurrently by other handler invocations.
Callers == 1..NumCallers
Slots == 0..NumCallers

ProviderOps == {"createProfile", "createInvestor", "updateInvestor", "search", "accessLink"}

\* responseBody of a failing provider call
errBody(kind, hasErrors, errors, error, message) ==
    [kind |-> kind, hasErrors |-> hasErrors, errors |-> errors,
     error |-> error, message |-> message]
NoBody == errBody("empty", FALSE, <<>>, "", "")

IdleCall == [pc |-> "idle", op |-> "", token |-> "", status |-> 0, data |-> <<>>]

\* Mutant of cacheIsFresh: the 60 second margin is left out.
cacheIsFreshNoMargin ==
    cachedToken # NoToken /\ now < cachedToken.expiresAt

\* getAccessToken's first test: the cached token is returned without a fetch
cacheIsFresh ==
    cachedToken # NoToken /\ now < cachedToken.expiresAt - RefreshMarginMs

\* Mutant of fetchedSlot: a refresh keeps the expiry already recorded.
fetchedSlotKeepsExpiry(tok, expiresIn) ==
    [ token |-> tok,
      expiresAt |-> IF cachedToken # NoToken THEN cachedToken.expiresAt
                    ELSE now + expiresIn * 1000 ]

\* the value getAccessToken stores after a successful token fetch
fetchedSlot(tok, expiresIn) ==
    [ token |-> tok, expiresAt |-> now + expiresIn * 1000 ]

\* dmFetch(op) up to its first network await: getAccessToken either returns the
\* cached token (the provider fetch is issued at once), or throws for missing
\* credentials, or issues the token fetch.
startedCall(op) ==
    IF cacheIsFresh
    THEN [IdleCall EXCEPT !.pc = "provider", !.op = op, !.token = cachedToken.token]
    ELSE IF ~(env.clientId /\ env.clientSecret)
    THEN [IdleCall EXCEPT !.pc = "threw", !.op = op, !.data = NoBody]
    ELSE [IdleCall EXCEPT !.pc = "token", !.op = op]

\* The token endpoint answers OK with {access_token: tok, expires_in: expiresIn}
TokenFetchOk(p, tok, expiresIn) ==
    /\ call[p].pc = "token"
    /\ cachedToken' = fetchedSlot(tok, expiresIn)
    /\ call' = [call EXCEPT ![p].pc = "provider", ![p].token = cachedToken'.token]
    /\ UNCHANGED <<wizardVars, env, now, h>>

\* The token endpoint answers non-OK, or the fetch rejects: a plain Error
TokenFetchFails(p) ==
    /\ call[p].pc = "token"
    /\ call' = [call EXCEPT ![p].pc = "threw", ![p].status = 0, ![p].data = NoBody]
    /\ UNCHANGED <<wizardVars, env, now, cachedToken, h>>

\* HTTP statuses and bodies of a failing provider call
ProviderStatuses == {404, 409, 422, 500}

\* The provider answers OK with a JSON body
ProviderOk(p, data) ==
    /\ call[p].pc = "provider"
    /\ call' = [call EXCEPT ![p].pc = "returned", ![p].token = "", ![p].data = data]
    /\ UNCHANGED <<wizardVars, env, now, cachedToken, h>>

\* The provider answers non-OK: DealMakerApiError with status and responseBody
ProviderNotOk(p, status, body) ==
    /\ call[p].pc = "provider"
    /\ call' = [call EXCEPT ![p].pc = "threw", ![p].token = "", ![p].status = status,
                            ![p].data = body]
    /\ UNCHANGED <<wizardVars, env, now, cachedToken, h>>

\* The provider fetch rejects, or an OK body is not JSON: an Error without status
ProviderThrows(p) ==
    /\ call[p].pc = "provider"
    /\ call' = [call EXCEPT ![p].pc = "threw", ![p].token = "", ![p].status = 0,
                            ![p].data = NoBody]
    /\ UNCHANGED <<wizardVars, env, now, cachedToken, h>>

\* getDeal(dealId): dmFetch of /deals/{dealId}.  The function is exported and
\* tests no setting itself; no file of src/ calls it.
getDeal(p) ==
    /\ call[p].pc = "idle"
    /\ call' = [call EXCEPT ![p] = startedCall("getDeal")]
    /\ UNCHANGED <<wizardVars, env, now, cachedToken, h>>

\* getDealIncentiveTiers(dealId): dmFetch of /deals/{dealId}/incentive_plan/tiers,
\* exported and called by no file of src/ as well
getDealIncentiveTiers(p) ==
    /\ call[p].pc = "idle"
    /\ call' = [call EXCEPT ![p] = startedCall("getDealIncentiveTiers")]
    /\ UNCHANGED <<wizardVars, env, now, cachedToken, h>>

\* One of the provider operations the route handlers use is called
\* (createInvestorProfile, createDealInvestor, updateDealInvestor,
\* searchDealInvestors, getInvestorAccessLink): each goes to dmFetch and tests
\* no setting itself (the handlers test isDealmakerConfigured() before they
\* call, see handlerStep).
ProviderRequest(p, op) ==
    /\ call[p].pc = "idle"
    /\ call' = [call EXCEPT ![p] = startedCall(op)]
    /\ UNCHANGED <<wizardVars, env, now, cachedToken, h>>

\* The caller takes the result (or the error) of its dmFetch
ProviderRequestEnds(p) ==
    /\ call[p].pc \in {"returned", "threw"}
    /\ call' = [call EXCEPT ![p] = IdleCall]
    /\ UNCHANGED <<wizardVars, env, now, cachedToken, h>>

\* Time passes
Tick ==
    /\ now < MaxTicks * TickMs
    /\ now' = now + TickMs
    /\ UNCHANGED <<wizardVars, env, cachedToken, call, h>>


-----------------------------------------------------------------------------
(* Route handlers (src/app/api/investor/*, src/unnamed/part_000..002) *)

Endpoints == {"earlyCreate", "create", "update", "complete", "resume",
              "resumeMulti", "accessLink"}

\* A request as a handler sees it: the JSON body (for accessLink, the id route
\* parameter is investorId).  0, "" and FALSE stand for a missing field.
FullBody ==
    [ investorId |-> 41, email |-> "a@b.co", firstName |-> "Al", lastName |-> "Al",
      investmentAmount |-> 250070, forceCreate |-> FALSE, investorType |-> "individual",
      jointFirstName |-> "", jointLastName |-> "", corporationName |-> "",
      trustName |-> "" ]

RequestBodies ==
    {FullBody,
     [FullBody EXCEPT !.investorId = 0],
     [FullBody EXCEPT !.email = ""],
     [FullBody EXCEPT !.firstName = ""],
     [FullBody EXCEPT !.lastName = ""],
     [FullBody EXCEPT !.investmentAmount = 0],
     [FullBody EXCEPT !.forceCreate = TRUE],
     [FullBody EXCEPT !.investorType = ""],
     [FullBody EXCEPT !.investorType = "joint"],
     [FullBody EXCEPT !.investorType = "corporation"],
     [FullBody EXCEPT !.investorType = "trust"],
     [FullBody EXCEPT !.investorType = "joint", !.jointFirstName = "Jo",
                      !.jointLastName = "Li"],
     [FullBody EXCEPT !.investorType = "corporation", !.corporationName = "Acme"],
     [FullBody EXCEPT !.investorType = "trust", !.trustName = "Fam"]}

\* the handler's test of its required inputs (the 400 answer)
missingRequired(ep, body) ==
    CASE ep = "complete" ->
            body.investorId = 0 \/ body.email = "" \/ body.firstName = "" \/ body.lastName = ""
      [] ep = "earlyCreate" -> body.email = "" \/ body.investmentAmount = 0
      [] ep \in {"resume", "resumeMulti"} -> body.email = ""
      [] ep = "accessLink" -> body.investorId = 0
      [] OTHER -> FALSE          \* create (POST) and update (PATCH) test nothing

missingRequiredMessage(ep) ==
    CASE ep = "complete" -> "Missing required fields."
      [] ep = "earlyCreate" -> "Email and investment amount are required."
      [] ep \in {"resume", "resumeMulti"} -> "Email is required."
      [] ep = "accessLink" -> "Investor ID is required."
      [] OTHER -> ""

notConfiguredMessage(ep) ==
    CASE ep \in {"earlyCreate", "create"} ->
            "DealMaker is not configured. Add API credentials to proceed."
      [] ep = "update" -> "DealMaker is not configured"
      [] OTHER -> "DealMaker is not configured."

\* Mutant of firstOp: early create never searches first.
firstOpSkipsSearch(ep, body) ==
    CASE ep \in {"complete", "create", "earlyCreate"} -> "createProfile"
      [] ep = "update" -> "updateInvestor"
      [] ep \in {"resume", "resumeMulti"} -> "search"
      [] ep = "accessLink" -> "accessLink"

\* the first provider operation of a handler whose inputs passed
firstOp(ep, body) ==
    CASE ep = "complete" -> "createProfile"
      [] ep = "create" -> "createProfile"
      [] ep = "earlyCreate" -> IF body.forceCreate THEN "createProfile" ELSE "search"
      [] ep = "update" -> "updateInvestor"
      [] ep \in {"resume", "resumeMulti"} -> "search"
      [] ep = "accessLink" -> "accessLink"

errorResponse(status, message) ==
    [status |-> status, body |-> [error |-> message]]

\* ---- bodies the provider answers with

ProfileData == {[id |-> 7]}
InvestorData == {[id |-> 41, state |-> "invited"]}
AccessLinkData == {[access_link |-> ""], [access_link |-> "https://pay.example/otp"]}

inv(id, state) == [id |-> id, state |-> state]
SearchLists ==
    { <<>>,
      <<inv(1, "invited")>>,
      <<inv(1, "cancelled")>>,
      <<inv(1, "")>>,
      <<inv(1, "accepted")>>,
      <<inv(2, "Signed"), inv(3, "waiting")>>,
      <<inv(3, "WAITING"), inv(1, "cancelled"), inv(2, "signed")>> }
SearchShapes == {"array", "items", "data"}
SearchData == [shape : SearchShapes, list : SearchLists]

ProviderData(op) ==
    CASE op = "createProfile" -> ProfileData
      [] op \in {"createInvestor", "updateInvestor"} -> InvestorData
      [] op = "search" -> SearchData
      [] op = "accessLink" -> AccessLinkData
      [] OTHER -> {}

EmailTaken == <<[field |-> "email", messages |-> <<"has already been taken">>]>>
ErrorBodies ==
    { NoBody,
      errBody("notjson", FALSE, <<>>, "", ""),
      errBody("json", FALSE, <<>>, "", ""),
      errBody("json", TRUE, EmailTaken, "", ""),
      errBody("json", TRUE, EmailTaken, "Conflict", "duplicate"),
      errBody("json", FALSE, <<>>, "Conflict", ""),
      errBody("json", FALSE, <<>>, "Conflict", "duplicate"),
      errBody("json", FALSE, <<>>, "", "duplicate") }

\* String.prototype.toLowerCase: every upper-case letter becomes the lower-case
\* letter at its place in the alphabet, every other character stays
RECURSIVE toLowerCase(_)
toLowerCase(st) ==
    LET upper == "ABCDEFGHIJKLMNOPQRSTUVWXYZ"
        lower == "abcdefghijklmnopqrstuvwxyz"
        lowered(c) ==
            IF \E i \in 1..Len(upper) : SubSeq(upper, i, i) = c
            THEN LET i == CHOOSE j \in 1..Len(upper) : SubSeq(upper, j, j) = c
                 IN  SubSeq(lower, i, i)
            ELSE c
    IN  IF st = "" THEN ""
        ELSE lowered(Head(st)) \o toLowerCase(Tail(st))

\* ---- parsing of the search answer

\* Array.isArray(raw) ? raw : (raw.items || raw.data || [])
investorsWithItems(raw) == raw.list
\* Array.isArray(raw) ? raw : (raw.data || [])
investorsDataOnly(raw) == IF raw.shape = "items" THEN <<>> ELSE raw.list

narrowStates == {"invited", "signed", "waiting"}
broadStates == {"invited", "signed", "waiting", "accepted", "draft", "active", "pending"}

isResumable(i, states) == i.state # "" /\ toLowerCase(i.state) \in states

RECURSIVE filterResumable(_, _)
filterResumable(list, states) ==
    IF list = <<>> THEN <<>>
    ELSE IF isResumable(Head(list), states)
         THEN <<Head(list)>> \o filterResumable(Tail(list), states)
         ELSE filterResumable(Tail(list), states)

\* x, which the list had before every element of sorted, stays before those
\* of the same id
RECURSIVE insertById(_, _)
insertById(x, sorted) ==
    IF sorted = <<>> THEN <<x>>
    ELSE IF x.id >= Head(sorted).id THEN <<x>> \o sorted
    ELSE <<Head(sorted)>> \o insertById(x, Tail(sorted))

\* .sort((a, b) => Number(b.id) - Number(a.id)): a stable sort
RECURSIVE sortByIdDesc(_)
sortByIdDesc(list) ==
    IF list = <<>> THEN <<>>
    ELSE insertById(Head(list), sortByIdDesc(Tail(list)))

\* investors.find(...): the first resumable investor, as a list of at most one
RECURSIVE findResumable(_, _)
findResumable(list, states) ==
    IF list = <<>> THEN <<>>
    ELSE IF isResumable(Head(list), states) THEN <<Head(list)>>
    ELSE findResumable(Tail(list), states)

\* ---- the catch blocks

GenericError == "Something went wrong. Please try again."

\* complete/route.ts catch
completeErrorMessage(err) ==
    IF err.data.kind = "json"
    THEN IF err.data.error # "" THEN err.data.error
         ELSE IF err.data.message # "" THEN err.data.message
         ELSE GenericError
    ELSE GenericError

statusOr500(err) == IF err.status # 0 THEN err.status ELSE 500

\* early create catch
earlyCreateErrorMessage(err) ==
    CASE statusOr500(err) = 409 -> "An investor with this email already exists."
      [] statusOr500(err) = 422 -> "Invalid email or amount. Please check and try again."
      [] OTHER -> GenericError

\* \w
isWordChar(c) ==
    LET wordChars == "ABCDEFGHIJKLMNOPQRSTUVWXYZabcdefghijklmnopqrstuvwxyz0123456789_"
    IN  \E i \in 1..Len(wordChars) : SubSeq(wordChars, i, i) = c

\* String.prototype.toUpperCase
RECURSIVE toUpperCase(_)
toUpperCase(st) ==
    LET upper == "ABCDEFGHIJKLMNOPQRSTUVWXYZ"
        lower == "abcdefghijklmnopqrstuvwxyz"
        raised(c) ==
            IF \E i \in 1..Len(lower) : SubSeq(lower, i, i) = c
            THEN LET i == CHOOSE j \in 1..Len(lower) : SubSeq(lower, j, j) = c
                 IN  SubSeq(upper, i, i)
            ELSE c
    IN  IF st = "" THEN ""
        ELSE raised(Head(st)) \o toUpperCase(Tail(st))

\* .replace(/\b\w/g, c => c.toUpperCase()): a word character that follows none
\* is put in upper case
RECURSIVE capitalizeWords(_, _)
capitalizeWords(s, afterWordChar) ==
    IF s = "" THEN ""
    ELSE (IF isWordChar(Head(s)) /\ ~afterWordChar
          THEN toUpperCase(Head(s))
          ELSE Head(s))
         \o capitalizeWords(Tail(s), isWordChar(Head(s)))

\* field.replace(/_/g, " ").replace(/\b\w/g, c => c.toUpperCase())
fieldLabel(field) ==
    LET RECURSIVE underscoresToSpaces(_)
        underscoresToSpaces(s) ==
            IF s = "" THEN ""
            ELSE (IF Head(s) = "_" THEN " " ELSE Head(s)) \o underscoresToSpaces(Tail(s))
    IN  capitalizeWords(underscoresToSpaces(field), FALSE)

RECURSIVE joinWith(_, _)
joinWith(strs, sep) ==
    IF strs = <<>> THEN ""
    ELSE IF Len(strs) = 1 THEN strs[1]
    ELSE strs[1] \o sep \o joinWith(Tail(strs), sep)

fieldMessages(errors) ==
    [i \in 1..Len(errors) |->
        fieldLabel(errors[i].field) \o ": " \o joinWith(errors[i].messages, ", ")]

\* investor create (POST) catch
createErrorMessage(err, body) ==
    LET parsedOk == err.data.kind = "json"
        apiErrors == IF parsedOk /\ err.data.hasErrors THEN err.data.errors ELSE <<>>
        parsedMessage ==
            IF parsedOk /\ ~err.data.hasErrors
            THEN IF err.data.error # "" THEN err.data.error
                 ELSE IF err.data.message # "" THEN err.data.message
                 ELSE "Something went wrong. Please try again or contact support."
            ELSE "Something went wrong. Please try again or contact support."
    IN  IF Len(apiErrors) > 0 THEN joinWith(fieldMessages(apiErrors), ". ") \o "."
        ELSE CASE err.status = 422 ->
                    IF body.email = "" \/ body.firstName = "" \/ body.lastName = ""
                    THEN "Please fill in all required fields (first name, last name, and email)."
                    ELSE "The information provided could not be processed. Please check your details and try again."
               [] err.status = 409 -> "An investor with this email already exists for this deal. Please use a different email address, or use the 'Resume Investment' option above."
               [] err.status = 401 -> "Authentication error. Please try again later."
               [] err.status = 404 -> "The investment deal could not be found. Please try again later."
               [] err.status = 429 -> "Too many requests. Please wait a moment and try again."
               [] OTHER -> parsedMessage

createErrorStatus(err) == IF err.status >= 400 THEN err.status ELSE 500

\* the answer of a handler whose provider call threw outside an inner try
catchResponse(ep, err, body) ==
    CASE ep = "complete" -> errorResponse(statusOr500(err), completeErrorMessage(err))
      [] ep = "earlyCreate" -> errorResponse(statusOr500(err), earlyCreateErrorMessage(err))
      [] ep = "create" -> errorResponse(createErrorStatus(err), createErrorMessage(err, body))
      [] ep = "update" -> errorResponse(500, "Failed to update investor record")
      [] ep \in {"resume", "resumeMulti"} ->
            errorResponse(500, "Unable to look up your investment. Please try again.")
      [] ep = "accessLink" ->
            errorResponse(500, "Unable to get access link. Please try again.")

\* ---- what the handlers send to the provider

PROFILE_ENDPOINTS ==
    [ individual |-> "/investor_profiles/individuals",
      joint |-> "/investor_profiles/joints",
      corporation |-> "/investor_profiles/corporations",
      trust |-> "/investor_profiles/trusts",
      managed |-> "/investor_profiles/managed" ]

\* body.investorType || "individual"
typeOf(body) == IF body.investorType = "" THEN "individual" ELSE body.investorType

\* the switch of complete and create that builds profileData
profileData(body) ==
    CASE typeOf(body) = "joint" ->
            [ email |-> body.email, first_name |-> body.firstName,
              last_name |-> body.lastName,
              joint_holder_first_name |-> body.jointFirstName,
              joint_holder_last_name |-> body.jointLastName ]
      [] typeOf(body) = "corporation" ->
            [ email |-> body.email, name |-> body.corporationName,
              signing_officer_first_name |-> body.firstName,
              signing_officer_last_name |-> body.lastName ]
      [] typeOf(body) = "trust" ->
            [ email |-> body.email, name |-> body.trustName,
              trustees |-> << [first_name |-> body.firstName,
                               last_name |-> body.lastName] >> ]
      [] OTHER ->
            [ email |-> body.email, first_name |-> body.firstName,
              last_name |-> body.lastName ]

\* encodeURIComponent of a text of printable ASCII characters: letters, digits
\* and - _ . ! ~ * ' ( ) are kept, every other character becomes % and the two
\* hexadecimal digits of its code.  The characters are those of the codes 32 to
\* 95 and 97 to 126 (a TLA+ string holds no grave accent, code 96).
RECURSIVE encodeURIComponent(_)
encodeURIComponent(s) ==
    LET asciiFrom32 == " !\"#$%&'()*+,-./0123456789:;<=>?@ABCDEFGHIJKLMNOPQRSTUVWXYZ[\\]^_"
        asciiFrom97 == "abcdefghijklmnopqrstuvwxyz{|}~"
        hexDigits   == "0123456789ABCDEF"
        codeOf(c) ==
            IF \E i \in 1..Len(asciiFrom32) : SubSeq(asciiFrom32, i, i) = c
            THEN 31 + CHOOSE i \in 1..Len(asciiFrom32) : SubSeq(asciiFrom32, i, i) = c
            ELSE 96 + CHOOSE i \in 1..Len(asciiFrom97) : SubSeq(asciiFrom97, i, i) = c
        percentEncoded(c) ==
            "%" \o SubSeq(hexDigits, (codeOf(c) \div 16) + 1, (codeOf(c) \div 16) + 1)
                \o SubSeq(hexDigits, (codeOf(c) % 16) + 1, (codeOf(c) % 16) + 1)
    IN  IF s = "" THEN ""
        ELSE (IF isWordChar(Head(s)) \/ Head(s) \in {"-", ".", "!", "~", "*", "'", "(", ")"}
              THEN Head(s) ELSE percentEncoded(Head(s)))
             \o encodeURIComponent(Tail(s))

\* The provider request a handler in state hh makes for operation op: the path
\* (without the deal id) and the JSON body, <<>> when there is none.

providerRequest(hh, op) ==
    CASE op = "createProfile" ->
            IF hh.ep = "earlyCreate"
            THEN [ op |-> op, path |-> PROFILE_ENDPOINTS["individual"],
                   data |-> [ email |-> hh.body.email, first_name |-> "Pending",
                              last_name |-> "Investor" ] ]
            ELSE [ op |-> op, path |-> PROFILE_ENDPOINTS[typeOf(hh.body)],
                   data |-> profileData(hh.body) ]
      [] op = "createInvestor" ->
            [ op |-> op, path |-> "/investors",
              data |-> [ email |-> hh.body.email,
                         first_name |-> IF hh.ep = "earlyCreate" THEN "Pending"
                                        ELSE hh.body.firstName,
                         last_name |-> IF hh.ep = "earlyCreate" THEN "Investor"
                                       ELSE hh.body.lastName,
                         investment_value |-> hh.body.investmentAmount,
                         allocation_unit |-> "amount",
                         investor_profile_id |-> hh.profileId ] ]
      [] op = "updateInvestor" ->
            [ op |-> op, path |-> <<"/investors", hh.body.investorId>>,
              data |-> IF hh.ep = "complete"
                       THEN [investor_profile_id |-> hh.profileId]
                       ELSE [current_step |-> Undefined] ]
      [] op = "search" ->
            [ op |-> op, path |-> <<"/investors?q=", encodeURIComponent(hh.body.email), "&per_page=5">>,
              data |-> <<>> ]
      [] op = "accessLink" ->
            [ op |-> op,
              path |-> <<"/investors", IF hh.ep \in {"create", "resume"}
                                       THEN hh.investor.id ELSE hh.body.investorId,
                         "otp_access_link">>,
              data |-> <<>> ]

IdleHandler ==
    [pc |-> "idle", ep |-> "", body |-> FullBody, calls |-> <<>>, sent |-> <<>>,
     profileId |-> 0, investor |-> inv(0, ""), resp |-> errorResponse(0, "")]

answered(hh, resp) == [hh EXCEPT !.pc = "done", !.resp = resp]
okResponse(body) == [status |-> 200, body |-> body]

\* A request arrives: the handler runs up to its first provider call
Receive(ep, body) ==
    /\ h.pc = "idle" /\ call[0].pc = "idle"
    /\ IF ~isDealmakerConfigured
       THEN /\ h' = answered([IdleHandler EXCEPT !.ep = ep, !.body = body],
                             errorResponse(503, notConfiguredMessage(ep)))
            /\ UNCHANGED call
       ELSE IF missingRequired(ep, body)
       THEN /\ h' = answered([IdleHandler EXCEPT !.ep = ep, !.body = body],
                             errorResponse(400, missingRequiredMessage(ep)))
            /\ UNCHANGED call
       ELSE /\ h' = [IdleHandler EXCEPT !.pc = "await", !.ep = ep, !.body = body,
                        !.calls = <<firstOp(ep, body)>>,
                        !.sent = <<providerRequest([IdleHandler EXCEPT !.ep = ep,
                                                                       !.body = body],
                                                   firstOp(ep, body))>>]
            /\ call' = [call EXCEPT ![0] = startedCall(firstOp(ep, body))]
    /\ UNCHANGED <<wizardVars, env, now, cachedToken>>

\* access_link || null
linkOf(r) == IF r.pc = "returned" THEN r.data.access_link ELSE ""

\* the success answer of complete, create and single-result resume, carrying the
\* link (or null, written "")
linkAnswer(hh, link) ==
    IF hh.ep = "resume"
    THEN okResponse([found |-> TRUE, investorId |-> hh.investor.id,
                     state |-> hh.investor.state, accessLink |-> link])
    ELSE okResponse([investorId |-> hh.investor.id, state |-> hh.investor.state,
                     paymentUrl |-> link])

\* Mutant of afterAccessLink: the access-link call is not wrapped in its own
\* try, so its failure reaches the handler's catch.
afterAccessLinkUncaught(hh, r) ==
    IF r.pc = "threw" THEN catchResponse(hh.ep, r, hh.body)
    ELSE linkAnswer(hh, linkOf(r))

\* try { accessLink = await getInvestorAccessLink(...) } catch { log }, then the
\* success answer
afterAccessLink(hh, r) == linkAnswer(hh, linkOf(r))

\* What the handler does when the provider call it awaits has returned or
\* thrown: [next |-> the next provider operation, or "" when it answers,
\*          h |-> the handler after the step].
handlerStep(hh, r) ==
    LET ok == r.pc = "returned"
        stage == hh.calls[Len(hh.calls)]
        goOn(op, h2) == [next |-> op,
                         h |-> [h2 EXCEPT !.calls = Append(@, op),
                                          !.sent = Append(@, providerRequest(h2, op))]]
        answer(resp) == [next |-> "", h |-> answered(hh, resp)]
        caught == answer(catchResponse(hh.ep, r, hh.body))
    IN  CASE hh.ep = "complete" ->
               (CASE stage = "createProfile" ->
                       IF ok THEN goOn("updateInvestor", [hh EXCEPT !.profileId = r.data.id])
                       ELSE caught
                  [] stage = "updateInvestor" ->
                       IF ok THEN goOn("accessLink", [hh EXCEPT !.investor = r.data])
                       ELSE caught
                  [] stage = "accessLink" -> answer(afterAccessLink(hh, r)))
          [] hh.ep = "earlyCreate" ->
               (CASE stage = "search" ->
                       IF ~ok THEN caught
                       ELSE LET resumable ==
                                  sortByIdDesc(filterResumable(investorsWithItems(r.data),
                                                               narrowStates))
                            IN  IF Len(resumable) > 0
                                THEN answer(okResponse([existingInvestments |-> TRUE,
                                                        investments |-> resumable]))
                                ELSE goOn("createProfile", hh)
                  [] stage = "createProfile" ->
                       IF ok THEN goOn("createInvestor", [hh EXCEPT !.profileId = r.data.id])
                       ELSE caught
                  [] stage = "createInvestor" ->
                       IF ok THEN answer(okResponse([existingInvestments |-> FALSE,
                                                     investorId |-> r.data.id,
                                                     profileId |-> hh.profileId,
                                                     state |-> r.data.state]))
                       ELSE caught)
          [] hh.ep = "create" ->
               (CASE stage = "createProfile" ->
                       IF ok THEN goOn("createInvestor", [hh EXCEPT !.profileId = r.data.id])
                       ELSE caught
                  [] stage = "createInvestor" ->
                       IF ok THEN goOn("accessLink", [hh EXCEPT !.investor = r.data])
                       ELSE caught
                  [] stage = "accessLink" -> answer(afterAccessLink(hh, r)))
          [] hh.ep = "update" ->
               IF ok THEN answer(okResponse([investorId |-> r.data.id, state |-> r.data.state]))
               ELSE caught
          [] hh.ep = "resume" ->
               (CASE stage = "search" ->
                       IF ~ok THEN caught
                       ELSE LET existing == findResumable(investorsDataOnly(r.data), broadStates)
                            IN  IF existing = <<>>
                                THEN answer(okResponse([found |-> FALSE]))
                                ELSE goOn("accessLink", [hh EXCEPT !.investor = existing[1]])
                  [] stage = "accessLink" -> answer(afterAccessLink(hh, r)))
          [] hh.ep = "resumeMulti" ->
               IF ~ok THEN caught
               ELSE LET resumable ==
                          sortByIdDesc(filterResumable(investorsWithItems(r.data), narrowStates))
                    IN  IF Len(resumable) = 0
                        THEN answer(okResponse([found |-> FALSE, investments |-> <<>>]))
                        ELSE answer(okResponse([found |-> TRUE, investments |-> resumable]))
          [] hh.ep = "accessLink" ->
               IF ok THEN answer(okResponse([accessLink |-> r.data.access_link]))
               ELSE caught

\* The awaited provider call has settled: the handler runs on to its next
\* provider call or to its answer
Resume ==
    /\ h.pc = "await" /\ call[0].pc \in {"returned", "threw"}
    /\ LET step2 == handlerStep(h, call[0])
       IN  /\ h' = step2.h
           /\ call' = IF step2.next = "" THEN call
                      ELSE [call EXCEPT ![0] = startedCall(step2.next)]
    /\ UNCHANGED <<wizardVars, env, now, cachedToken>>

\* The answer has been sent; the invocation and its last dmFetch result are gone
Respond ==
    /\ h.pc = "done"
    /\ h' = IdleHandler
    /\ call' = [call EXCEPT ![0] = IdleCall]
    /\ UNCHANGED <<wizardVars, env, now, cachedToken>>

ServerInit ==
    /\ env \in Envs
    /\ now = 0
    /\ cachedToken = NoToken
    /\ call = [p \in Slots |-> IdleCall]
    /\ h = IdleHandler

\* The wizard and the server each at rest, for the specification of the other
WizardAtRest ==
    /\ step = 2 /\ investorId = 41 /\ investorEmail = "a@b.co"
    /\ config = FALLBACK_CONFIG
    /\ initialAmount = 250070 /\ amount = 250070 /\ amountSide = 0 /\ shares = 2942
    /\ expandedSection = "investment" /\ completedSections = <<>>
    /\ investorType = "individual"
    /\ firstName = "" /\ lastName = ""
    /\ jointFirstName = "" /\ jointLastName = ""
    /\ corporationName = "" /\ trustName = ""
    /\ isSubmitting = FALSE /\ submitError = "" /\ submitSuccess = FALSE
    /\ contactErrors = [firstName |-> "", lastName |-> ""]
    /\ contactTouched = [firstName |-> FALSE, lastName |-> FALSE]
    /\ inflight = FALSE /\ orphaned = 0 /\ location = ""
    /\ StepOneFresh
    /\ configLoaded = TRUE

ServerAtRest ==
    /\ env = [clientId |-> TRUE, clientSecret |-> TRUE, dealId |-> TRUE]
    /\ now = 0
    /\ cachedToken = NoToken
    /\ call = [p \in Slots |-> IdleCall]
    /\ h = IdleHandler

\* provider operations and failure statuses of the concurrent requests
ConcurrentOps == {"search", "accessLink"}
ConcurrentStatuses == {409, 500}

TokenNext ==
    \/ \E p \in Callers, op \in ConcurrentOps : ProviderRequest(p, op)
    \/ \E p \in Callers : getDeal(p)
    \/ \E p \in Callers : getDealIncentiveTiers(p)
    \/ \E p \in Callers, tok \in Tokens, e \in ExpiresIn : TokenFetchOk(p, tok, e)
    \/ \E p \in Callers : TokenFetchFails(p)
    \/ \E p \in Callers : ProviderOk(p, <<>>)
    \/ \E p \in Callers, st \in ConcurrentStatuses : ProviderNotOk(p, st, NoBody)
    \/ \E p \in Callers : ProviderThrows(p)
    \/ \E p \in Callers : ProviderRequestEnds(p)
    \/ Tick

TokenInit == WizardAtRest /\ MathAtRest /\ ServerInit
SpecToken == TokenInit /\ [][TokenNext]_vars

\* ---- the investment math applied to one set of arguments

notMath == <<stepOneVars, pageVars, stepTwoState, serverVars, configLoaded>>

Calculate ==
    /\ mathOut = NoResult
    /\ mathOut' = [NoResult EXCEPT !.fn = "calculateInvestment",
                      !.calc = <<calculateInvestment(mathIn.amount, mathConfig(mathIn))>>]
    /\ UNCHANGED <<mathIn, notMath>>

NextTier ==
    /\ mathOut = NoResult
    /\ mathOut' = [NoResult EXCEPT !.fn = "getNextTierInfo",
                      !.tier = getNextTierInfo(mathIn.amount, mathConfig(mathIn))]
    /\ UNCHANGED <<mathIn, notMath>>

Align ==
    /\ mathOut = NoResult
    /\ mathOut' = [NoResult EXCEPT !.fn = "alignToSharePrice",
                      !.aligned = alignToSharePrice(mathIn.amount, mathIn.sharePrice)]
    /\ UNCHANGED <<mathIn, notMath>>

\* alignToSharePrice applied to its own result
AlignAgain ==
    /\ mathOut.fn = "alignToSharePrice"
    /\ mathOut' = [mathOut EXCEPT !.fn = "alignToSharePrice twice",
                      !.aligned = alignToSharePrice(mathOut.aligned, mathIn.sharePrice)]
    /\ UNCHANGED <<mathIn, notMath>>

MathNext == Calculate \/ NextTier \/ Align \/ AlignAgain

MathInit == WizardAtRest /\ ServerAtRest /\ mathIn \in MathInputs /\ mathOut = NoResult
SpecMath == MathInit /\ [][MathNext]_vars

PageInit ==
    /\ step = 1 /\ investorId = 0 /\ investorEmail = ""
    /\ configLoaded = FALSE
    /\ config = FALLBACK_CONFIG
    /\ initialAmount = FALLBACK_CONFIG.presetAmounts[1]
    /\ StepOneFresh
    /\ amount = initialAmount /\ amountSide = 0
    /\ shares = calculateInvestment(amount, config).baseShares
    /\ expandedSection = "investment" /\ completedSections = <<>>
    /\ investorType = "individual"
    /\ firstName = "" /\ lastName = ""
    /\ jointFirstName = "" /\ jointLastName = ""
    /\ corporationName = "" /\ trustName = ""
    /\ isSubmitting = FALSE /\ submitError = "" /\ submitSuccess = FALSE
    /\ contactErrors = [firstName |-> "", lastName |-> ""]
    /\ contactTouched = [firstName |-> FALSE, lastName |-> FALSE]
    /\ inflight = FALSE /\ orphaned = 0 /\ location = ""
    /\ MathAtRest /\ ServerAtRest

SpecPage == PageInit /\ [][PageNext]_vars

ApiNext ==
    \/ \E ep \in Endpoints, body \in RequestBodies : Receive(ep, body)
    \/ Resume
    \/ Respond
    \/ \E tok \in Tokens, e \in ExpiresIn : TokenFetchOk(0, tok, e)
    \/ TokenFetchFails(0)
    \/ \E data \in ProviderData(call[0].op) : ProviderOk(0, data)
    \/ \E st \in ProviderStatuses, b \in ErrorBodies : ProviderNotOk(0, st, b)
    \/ ProviderThrows(0)

ApiInit == WizardAtRest /\ MathAtRest /\ ServerInit
SpecApi == ApiInit /\ [][ApiNext]_vars

-----------------------------------------------------------------------------
(* Properties of the Step Two wizard *)

Range(seq) == {seq[i] : i \in 1..Len(seq)}
NoDuplicates(seq) == \A i, j \in 1..Len(seq) : seq[i] = seq[j] => i = j
NonBlank(s) == s \notin {"", " "}
allContactFieldsEmpty ==
    /\ firstName = "" /\ lastName = "" /\ jointFirstName = "" /\ jointLastName = ""
    /\ corporationName = "" /\ trustName = ""

\* C1: in every reachable state of the wizard, Contact is accessible iff
\* Investment is completed, Confirmation is accessible iff Investment and
\* Contact are completed, and Payment is accessible iff Investment, Contact and
\* Confirmation are completed.
C1_Accessibility ==
    /\ isSectionAccessible("investment")
    /\ isSectionAccessible("contact") <=> "investment" \in Range(completedSections)
    /\ isSectionAccessible("confirmation")
          <=> {"investment", "contact"} \subseteq Range(completedSections)
    /\ isSectionAccessible("payment")
          <=> {"investment", "contact", "confirmation"} \subseteq Range(completedSections)

\* Payment has become accessible and an earlier section has been re-opened.
C1_Witness ==
    /\ Mounted
    /\ Range(completedSections) = {"investment", "contact", "confirmation"}
    /\ expandedSection = "contact"

followingSection(s) ==
    CASE s = "investment" -> "contact"
      [] s = "contact" -> "confirmation"
      [] s = "confirmation" -> "payment"

continuePost(s) ==
    /\ Range(completedSections') = Range(completedSections) \cup {s}
    /\ NoDuplicates(completedSections')
    /\ expandedSection' = followingSection(s)

\* C2: a continue on section S makes the completed set completed \cup {S},
\* without duplicating S, and expands the section that follows S (a continue on
\* the last section would leave the expanded section alone); while the wizard
\* stays on screen no action removes a section from the completed set.
C2_ContinueGrows ==
    /\ [](\A s \in Sections :
            /\ Range(completedAfterContinue(s)) = Range(completedSections) \cup {s}
            /\ Len(completedAfterContinue(s)) =
                  Len(completedSections) + (IF s \in Range(completedSections) THEN 0 ELSE 1)
            /\ (s = "payment" => expandedAfterContinue(s) = expandedSection))
    /\ [][ /\ InvestmentContinue => continuePost("investment")
           /\ ContactContinue => continuePost("contact")
           /\ ConfirmationContinue => continuePost("confirmation")
           /\ step' = 2 => Range(completedSections) \subseteq Range(completedSections') ]_vars

\* A continue was taken on a section that was already completed: nothing was
\* duplicated and the next section is expanded.
C2_Witness ==
    /\ Mounted
    /\ completedSections = <<"investment", "contact", "confirmation">>
    /\ expandedSection = "payment"
    /\ amount # initialAmount

investmentValid ==
    /\ ~amountBelow(config.minInvestment)
    /\ config.maxInvestment = 0 \/ ~amountAbove(config.maxInvestment)

contactValid ==
    /\ NonBlank(firstName) /\ NonBlank(lastName)
    /\ investorType = "joint" => NonBlank(jointFirstName) /\ NonBlank(jointLastName)
    /\ investorType = "corporation" => NonBlank(corporationName)
    /\ investorType = "trust" => NonBlank(trustName)

sectionValid(s) ==
    CASE s = "investment" -> investmentValid
      [] s = "contact" -> contactValid
      [] s = "confirmation" -> TRUE
      [] OTHER -> FALSE

\* C4: changing the investor type clears every Contact field, every Contact
\* validation error and every touched flag.
C4_TypeChangeClearsContact ==
    [][(investorType' # investorType /\ step' = 2)
       => /\ allContactFieldsEmpty'
          /\ contactErrors' = [firstName |-> "", lastName |-> ""]
          /\ contactTouched' = [firstName |-> FALSE, lastName |-> FALSE]]_vars

\* Contact had been completed (so names were entered) and the type was then
\* changed: the fields are empty again.
C4_Witness ==
    /\ Mounted
    /\ "contact" \in Range(completedSections)
    /\ investorType = "corporation"
    /\ allContactFieldsEmpty
    /\ contactTouched = [firstName |-> FALSE, lastName |-> FALSE]

missingIdentity == investorId = 0 \/ investorEmail = ""

\* C5 as stated: the guard state is a dead end, no transition leaves it.
C5_GuardIsDeadEnd ==
    [][(step = 2 /\ missingIdentity) => UNCHANGED vars]_vars

\* C5 amended: with the investor id or email missing, no section is ever
\* expanded or completed and no completion request is issued; the one
\* transition of the guard state is Go Back, which shows Step One.
C5_GuardOnlyGoesBack ==
    /\ [](missingIdentity =>
            /\ completedSections = <<>> /\ expandedSection = "investment"
            /\ ~inflight /\ ~isSubmitting /\ ~submitSuccess /\ location = "")
    /\ [][(step = 2 /\ missingIdentity)
          => /\ step' = 1
             /\ UNCHANGED <<investorId, investorEmail, config, initialAmount, amount,
                            amountSide, shares, expandedSection, completedSections, contactState,
                            submitState>>]_vars

\* Go Back was taken from the guard state.
C5_Witness == missingIdentity /\ step = 1

\* a Payment submission of the wizard on screen fails: a non-OK response, or a
\* thrown fetch/parse
submissionFails ==
    ((\E e \in EndpointErrors : CompleteNotOk(e)) \/ CompleteThrows) /\ Listening

\* C6 as stated: when a submission fails (non-OK response or a thrown
\* fetch/parse), a non-empty error is shown (the endpoint's text, else the
\* fallback), the confirmation flag stays false, the expanded section is
\* Payment, the submit button is enabled again and no request is in flight; a
\* request is only ever issued by a click on the enabled submit button.
C6_FailureStaysOnPayment ==
    [][ /\ \A e \in EndpointErrors :
              (CompleteNotOk(e) /\ Listening)
              => submitError' = (IF e = "" THEN CompleteFallbackError ELSE e)
        /\ submissionFails
              => /\ submitError' # ""
                 /\ ~submitSuccess'
                 /\ expandedSection' = "payment"
                 /\ submitButtonEnabled'
                 /\ ~inflight'
        /\ (inflight' /\ ~inflight)
              => expandedSection = "payment" /\ ~isSubmitting /\ ~submitSuccess ]_vars

\* C6 amended: when a submission fails on a wizard still on screen, the error
\* is set non-empty (the endpoint's text, else the fallback), the confirmation
\* flag stays false, the expanded section is left as it was (Payment, unless
\* another section was opened while the request was in flight), the
\* submitting flag is cleared, so the submit button is enabled again whenever
\* Payment is expanded, and no request is in flight; a request is only ever
\* issued by a click on the enabled submit button.
C6_FailureShowsErrorNoRetry ==
    [][ /\ \A e \in EndpointErrors :
              (CompleteNotOk(e) /\ Listening)
              => submitError' = (IF e = "" THEN CompleteFallbackError ELSE e)
        /\ submissionFails
              => /\ submitError' # ""
                 /\ ~submitSuccess'
                 /\ expandedSection' = expandedSection
                 /\ ~isSubmitting'
                 /\ expandedSection = "payment" => submitButtonEnabled'
                 /\ ~inflight'
        /\ (inflight' /\ ~inflight)
              => expandedSection = "payment" /\ ~isSubmitting /\ ~submitSuccess ]_vars

\* A submission failed after another section had been opened during the
\* request: the error is set while Payment is collapsed.
C6_FailedWhileCollapsed ==
    /\ Mounted
    /\ expandedSection = "investment"
    /\ "confirmation" \in Range(completedSections)
    /\ submitError = CompleteFallbackError
    /\ ~isSubmitting /\ ~inflight /\ ~submitSuccess

\* A submission failed with a body carrying no error text: the fallback shows.
C6_Witness ==
    /\ Mounted
    /\ expandedSection = "payment"
    /\ submitError = CompleteFallbackError
    /\ ~isSubmitting /\ ~inflight /\ ~submitSuccess

\* C7: on an OK response with a payment URL the client navigates to that URL
\* and the confirmation is not shown; on an OK response without one the
\* confirmation is shown, nothing is navigated to, and from then on the wizard
\* issues no completion request.
C7_SuccessRedirectsOrConfirms ==
    [][ /\ \A u \in PaymentUrls :
              CompleteOk(u)
              => IF u # ""
                 THEN location' = u /\ ~submitSuccess'
                 ELSE location' = "" /\ (Listening => submitSuccess')
        /\ submitSuccess => ~inflight'
        /\ (submitSuccess /\ step' = 2) => submitSuccess' ]_vars

\* The confirmation is shown after an OK response without a URL.
C7_Witness ==
    /\ Mounted
    /\ submitSuccess /\ expandedSection = "payment" /\ ~inflight /\ ~isSubmitting

\* The client was redirected to the payment URL.
C7_RedirectReached == location = "https://pay.example/otp" /\ ~submitSuccess

-----------------------------------------------------------------------------
(* Properties of the token cache *)

\* the refresh test as the claim words it: the slot is empty, or the time is
\* at or after the recorded expiry minus 60 seconds
refreshDue == cachedToken = NoToken \/ now >= cachedToken.expiresAt - 60 * 1000

starts(p) == call[p].pc = "idle" /\ call'[p].pc # "idle"

\* C8 as stated: a provider request issues a token fetch iff the cache slot is
\* empty or the time is at or after expiry - 60 s, and otherwise goes on with the cached
\* token without a fetch; a successful fetch leaves the slot holding the
\* fetched token with expiry = completion time + expires_in seconds.
C8_RefreshIffDue ==
    [][\A p \in Callers :
         /\ starts(p) =>
               /\ call'[p].pc = "token" <=> refreshDue
               /\ ~refreshDue => /\ call'[p].pc = "provider"
                                 /\ call'[p].token = cachedToken.token
                                 /\ cachedToken' = cachedToken
         /\ \A tok \in Tokens, e \in ExpiresIn :
               TokenFetchOk(p, tok, e)
               => cachedToken' = [token |-> tok, expiresAt |-> now + e * 1000]]_vars

\* C8 amended: with the client id and the client secret set, a provider request
\* issues a token fetch iff the cache slot is empty or the time is at or after
\* expiry - 60 s; with either unset it issues no fetch and throws when that
\* test calls for one, leaving the slot as it was; otherwise the request goes on
\* with the cached token without a fetch; a successful fetch leaves the slot
\* holding the fetched token with expiry = completion time + expires_in seconds.
C8_RefreshIffDueWithCredentials ==
    [][\A p \in Callers :
         /\ starts(p) =>
               /\ call'[p].pc = "token" <=> (refreshDue /\ env.clientId /\ env.clientSecret)
               /\ (refreshDue /\ ~(env.clientId /\ env.clientSecret))
                     => call'[p].pc = "threw" /\ cachedToken' = cachedToken
               /\ ~refreshDue => /\ call'[p].pc = "provider"
                                 /\ call'[p].token = cachedToken.token
                                 /\ cachedToken' = cachedToken
         /\ \A tok \in Tokens, e \in ExpiresIn :
               TokenFetchOk(p, tok, e)
               => cachedToken' = [token |-> tok, expiresAt |-> now + e * 1000]]_vars

\* A request found the slot filled and exactly at expiry - 60 s, and fetches.
C8_Witness ==
    \E p \in Callers :
       /\ call[p].pc = "token"
       /\ cachedToken # NoToken
       /\ now > 0
       /\ now = cachedToken.expiresAt - 60 * 1000

\* A request goes on with the cached token, no fetch issued.
C8_CachedTokenUsed ==
    \E p \in Callers :
       /\ call[p].pc = "provider" /\ call[p].token = cachedToken.token
       /\ \A q \in Callers : call[q].pc # "token"
       /\ now - TickMs >= 0 /\ now < cachedToken.expiresAt - 60 * 1000 /\ now > 0

\* C9: two requests that start while the cache is absent or expired may each
\* issue a token fetch; in every interleaving a request proceeds to the
\* provider with the token the slot holds at that moment, which a token fetch
\* returned, and every write of the slot stores the token and the expiry of one
\* single fetch.
C9_RaceKeepsSlotWhole ==
    [][ /\ \A p \in Callers :
              (call[p].pc # "provider" /\ call'[p].pc = "provider")
              => /\ cachedToken' # NoToken
                 /\ call'[p].token = cachedToken'.token
                 /\ call'[p].token \in Tokens
        /\ cachedToken' # cachedToken
              => \E p \in Callers, tok \in Tokens, e \in ExpiresIn :
                    /\ call[p].pc = "token" /\ call'[p].pc = "provider"
                    /\ call'[p].token = tok
                    /\ cachedToken' = [token |-> tok, expiresAt |-> now + e * 1000] ]_vars

\* Two token fetches are in flight at once, over a slot that is already filled.
C9_Witness ==
    /\ cachedToken # NoToken
    /\ \E p, q \in Callers : p # q /\ call[p].pc = "token" /\ call[q].pc = "token"

-----------------------------------------------------------------------------
(* Properties of the route handlers *)

someSettingUnset == ~env.clientId \/ ~env.clientSecret \/ ~env.dealId

\* C10: with the client id, the client secret or the deal id unset, every
\* endpoint answers 503 whatever the request body, and the request makes no
\* token fetch and no provider call.
C10_Unconfigured503 ==
    someSettingUnset =>
        /\ h.pc \in {"idle", "done"}
        /\ h.pc = "done" => h.resp.status = 503 /\ h.resp.body.error # ""
        /\ h.calls = <<>>
        /\ call[0].pc = "idle"
        /\ cachedToken = NoToken

\* A complete request with every field present was answered 503 because only
\* the deal id is unset.
C10_Witness ==
    /\ env = [clientId |-> TRUE, clientSecret |-> TRUE, dealId |-> FALSE]
    /\ h.pc = "done" /\ h.ep = "complete" /\ h.body = FullBody
    /\ h.resp.status = 503

\* the required inputs of each endpoint as the interface description lists them
requiredInputMissing(ep, body) ==
    CASE ep = "complete" ->
            body.investorId = 0 \/ body.email = "" \/ body.firstName = "" \/ body.lastName = ""
      [] ep = "earlyCreate" -> body.email = "" \/ body.investmentAmount = 0
      [] ep = "create" ->
            body.email = "" \/ body.firstName = "" \/ body.lastName = ""
               \/ body.investmentAmount = 0
      [] ep \in {"resume", "resumeMulti"} -> body.email = ""
      [] ep = "accessLink" -> body.investorId = 0
      [] OTHER -> FALSE

\* C11: with the credentials configured, a request that lacks a required input
\* of its endpoint is answered 400 and makes no provider call.
C11_MissingInput400 ==
    (isDealmakerConfigured /\ h.pc # "idle" /\ requiredInputMissing(h.ep, h.body))
    => /\ h.calls = <<>>
       /\ h.pc = "done" /\ h.resp.status = 400

\* the handler being served has answered after its last provider call failed
\* with an HTTP status (a DealMakerApiError)
providerFailed ==
    h.pc = "done" /\ h.calls # <<>> /\ call[0].pc = "threw" /\ call[0].status # 0

\* the access-link fetch made after a creation, completion or resumption
bestEffortLink ==
    h.ep \in {"complete", "create", "resume"} /\ call[0].op = "accessLink"

\* C12: when a provider call made by an endpoint fails with HTTP status s, the
\* endpoint answers with status s and a body {error: string}.  (The best-effort
\* access-link fetch, whose failure is to be swallowed, is left aside here.)
C12_ProviderStatusSurfaced ==
    (providerFailed /\ ~bestEffortLink)
    => /\ h.resp.status = call[0].status
       /\ DOMAIN h.resp.body = {"error"}
       /\ h.resp.body.error # ""

\* the failing call's body is a JSON envelope without errors and with an error string
envelopeWithErrorOnly ==
    call[0].data.kind = "json" /\ ~call[0].data.hasErrors /\ call[0].data.error # ""

\* C13: the message is taken from the envelope in the precedence errors, error,
\* message; in particular an envelope without errors and with an error string
\* makes the answer's message that error string, whatever the upstream status
\* and the endpoint.
C13_EnvelopeErrorShown ==
    (providerFailed /\ ~bestEffortLink /\ envelopeWithErrorOnly)
    => h.resp.body.error = call[0].data.error

\* the handler answered after its access-link fetch failed (HTTP failure,
\* rejected fetch or failed token fetch)
linkFetchFailed ==
    /\ h.pc = "done" /\ h.ep \in {"complete", "create", "resume"}
    /\ call[0].op = "accessLink" /\ call[0].pc = "threw"

\* C14: in complete, create and resume, a failed access-link fetch still gives
\* the success answer with the investor's id and state; only the URL is null.
C14_LinkFailureKeepsSuccess ==
    linkFetchFailed
    => /\ h.resp.status = 200
       /\ "error" \notin DOMAIN h.resp.body
       /\ h.resp.body.investorId = h.investor.id /\ h.investor.id # 0
       /\ h.resp.body.state = h.investor.state
       /\ IF h.ep = "resume" THEN h.resp.body.accessLink = "" /\ h.resp.body.found
          ELSE h.resp.body.paymentUrl = ""

\* A completion whose access-link fetch was answered 500 is reported as success.
C14_Witness ==
    /\ linkFetchFailed /\ h.ep = "complete" /\ call[0].status = 500
    /\ h.calls = <<"createProfile", "updateInvestor", "accessLink">>
    /\ h.resp.status = 200 /\ h.resp.body.investorId = 41

-----------------------------------------------------------------------------
(* Properties of the investment math *)

\* the tiers of the evaluated configuration whose threshold the amount meets
tiersMet == {i \in 1..Len(mathIn.tiers) : mathIn.tiers[i].threshold <= mathIn.amount}

\* C15: whatever the order of the tiers, bonusPercent is that of the tier with
\* the highest threshold <= amount, and 0 when the amount meets no threshold.
C15_HighestTierBonus ==
    (mathOut.fn = "calculateInvestment" /\ mathIn.amount >= 0)
    => IF tiersMet = {} THEN mathOut.calc[1].bonusPercent = 0
       ELSE \E i \in tiersMet :
               /\ \A j \in tiersMet : mathIn.tiers[j].threshold <= mathIn.tiers[i].threshold
               /\ mathOut.calc[1].bonusPercent = mathIn.tiers[i].bonusPercent

\* C16: for amount >= 0 and sharePrice > 0, in exact cents, baseShares is
\* floor(amount / sharePrice), bonusShares is floor(baseShares * bonusPercent /
\* 100), totalShares is their sum, and effectiveSharePrice is sharePrice when
\* totalShares is 0; 10000.25 at 0.85 with the tiers 5000:5, 10000:10, 25000:15
\* gives 11765 base shares, 10 percent, 1176 bonus shares, 12941 in total.
C16_SharesArithmetic ==
    (mathOut.fn = "calculateInvestment" /\ mathIn.amount >= 0 /\ mathIn.sharePrice > 0)
    => LET r == mathOut.calc[1]
       IN  /\ r.baseShares = mathIn.amount \div mathIn.sharePrice
           /\ r.bonusShares = (r.baseShares * r.bonusPercent) \div 100
           /\ r.totalShares = r.baseShares + r.bonusShares
           /\ r.totalShares = 0 => r.effectiveSharePrice = ratio(mathIn.sharePrice, 1)
           /\ (mathIn.amount = 1000025 /\ mathIn.sharePrice = 85
                  /\ mathIn.tiers = FALLBACK_CONFIG.volumeTiers)
              => /\ r.baseShares = 11765 /\ r.bonusPercent = 10
                 /\ r.bonusShares = 1176 /\ r.totalShares = 12941

\* the tiers of the evaluated configuration whose threshold exceeds the amount
tiersAbove == {i \in 1..Len(mathIn.tiers) : mathIn.tiers[i].threshold > mathIn.amount}

\* C17: whatever the order of the tiers, getNextTierInfo returns none iff no
\* threshold exceeds the amount (the amount is at or above the maximum
\* threshold); otherwise it returns the tier with the smallest threshold above
\* the amount, with amountNeeded = threshold - amount > 0.
C17_NextTierIsSmallestAbove ==
    mathOut.fn = "getNextTierInfo"
    => /\ mathOut.tier = <<>> <=> tiersAbove = {}
       /\ mathOut.tier # <<>>
          => LET t == mathOut.tier[1]
             IN  /\ \E i \in tiersAbove :
                        /\ t.threshold = mathIn.tiers[i].threshold
                        /\ t.bonusPercent = mathIn.tiers[i].bonusPercent
                        /\ \A j \in tiersAbove :
                              mathIn.tiers[i].threshold <= mathIn.tiers[j].threshold
                 /\ t.amountNeeded = t.threshold - mathIn.amount
                 /\ t.amountNeeded > 0

\* the next tier of an amount one cent under the lowest threshold, found in a
\* configuration that lists a higher tier first
C17_Witness ==
    /\ mathOut.fn = "getNextTierInfo"
    /\ Len(mathIn.tiers) > 1
    /\ mathIn.tiers[1].threshold > 500000
    /\ mathIn.amount = 499999
    /\ mathOut.tier # <<>>
    /\ mathOut.tier[1].threshold = 500000
    /\ mathOut.tier[1].amountNeeded = 1

\* C18: for x > 0 and p > 0, alignToSharePrice(x, p) is the smallest whole
\* multiple of p that is >= x, and aligning the result again returns it
\* unchanged; for p <= 0 or x <= 0 the amount is returned unchanged.
C18_AlignRoundsUpIdempotent ==
    LET x == mathIn.amount
        p == mathIn.sharePrice
    IN  /\ mathOut.fn = "alignToSharePrice"
           => IF x > 0 /\ p > 0
              THEN /\ mathOut.aligned % p = 0
                   /\ mathOut.aligned >= x
                   /\ mathOut.aligned - p < x
              ELSE mathOut.aligned = x
        /\ mathOut.fn = "alignToSharePrice twice"
           => mathOut.aligned = alignToSharePrice(x, p)

\* the preset amounts of the built-in configuration
builtInPresets ==
    {FALLBACK_CONFIG.presetAmounts[i] : i \in 1..Len(FALLBACK_CONFIG.presetAmounts)}

\* C19: every preset of the built-in configuration is a whole multiple of its
\* 0.85 share price, so alignToSharePrice(preset, 0.85) returns the preset.
C19_PresetsAligned ==
    ( /\ mathOut.fn = "alignToSharePrice"
      /\ mathIn.amount \in builtInPresets
      /\ mathIn.sharePrice = FALLBACK_CONFIG.sharePrice )
    => /\ mathIn.amount % FALLBACK_CONFIG.sharePrice = 0
       /\ mathOut.aligned = mathIn.amount

------------------------------------------------------------------------------
(* Properties of Step One *)

\* C20: the page goes from Step One to Step Two only when Step One's amount is
\* at least minInvestment and, if a maximum is configured, at most
\* maxInvestment; Step Two then starts with exactly that amount.
C20_ContinueOnlyWhenValid ==
    [][ (step = 1 /\ step' = 2)
        => /\ stepOneAmount >= config.minInvestment
           /\ config.maxInvestment = 0 \/ stepOneAmount <= config.maxInvestment
           /\ initialAmount' = stepOneAmount
           /\ amount' = stepOneAmount ]_vars

\* Step Two entered with an amount that was typed in Step One, aligned to the
\* minimum investment exactly, under a configuration that has a maximum
C20_Witness ==
    /\ step = 2
    /\ config.maxInvestment # 0
    /\ amount = config.minInvestment
    /\ amount # config.presetAmounts[1]
    /\ expandedSection = "investment" /\ completedSections = <<>>

\* the thresholds of the configured tiers that exceed Step One's amount
thresholdsAbove ==
    {config.volumeTiers[i].threshold : i \in 1..Len(config.volumeTiers)}
        \ (0..stepOneAmount)

\* C21: the upsell is accepted only when a next tier exists, its threshold is
\* at most 2000 above the amount and the amount is below 25000; accepting
\* sets the amount to the smallest threshold above it and changes nothing
\* else of Step One or the page.
C21_UpsellToNextThreshold ==
    [][ handleUpsellAccept
        => /\ thresholdsAbove # {}
           /\ stepOneAmount < 2500000
           /\ \E t \in thresholdsAbove :
                 /\ \A u \in thresholdsAbove : t <= u
                 /\ t - stepOneAmount <= 200000
                 /\ stepOneAmount' = t
           /\ UNCHANGED <<displayMode, rawInput, isInputFocused, step, initialAmount,
                          config, investorId, investorEmail>> ]_vars

\* the upsell accepted in shares mode: the amount is the 5000 threshold, which
\* nothing typed and no preset gives
C21_Witness ==
    /\ step = 1
    /\ displayMode = "shares"
    /\ stepOneAmount = 500000

\* C28: Step One starts from a share-aligned amount, and after any sequence
\* of its actions the amount is 0 or a whole multiple of the share price.
C28_AmountBuysWholeShares ==
    (step = 1 /\ config.sharePrice > 0) => stepOneAmount % config.sharePrice = 0

\* C30: Continue in Step One brings the page to Step Two with an investor id
\* and an investor email, the wizard in its Investment section and not in the
\* guard state; Back from Step Two shows Step One with the amount that Step
\* One last forwarded.
C30_ContinueCarriesIdentity ==
    [][ /\ (step = 1 /\ step' = 2)
           => /\ investorId' # 0 /\ investorEmail' # ""
              /\ expandedSection' = "investment"
        /\ (step = 2 /\ step' = 1)
           => stepOneAmount' = initialAmount ]_vars

\* the fetch failed, or the response lacks the config or one of its fields
fallbackDue(response) ==
    \/ ~hasConfig(response)
    \/ DOMAIN response.data.config # DOMAIN FALLBACK_CONFIG

\* C25: when the deal-configuration fetch settles (resolved, rejected or with
\* an unparsable body) the loading state ends, and when the fetch failed or the
\* response lacks the config or one of its fields the configuration in use
\* afterwards is FALLBACK_CONFIG.
C25_LoadEndsWithFallback ==
    [][ \A response \in DealResponses :
          ConfigFetchSettles(response)
          => /\ configLoaded'
             /\ fallbackDue(response) => config' = FALLBACK_CONFIG ]_vars

------------------------------------------------------------------------------
(* Properties of the resume and creation endpoints *)

\* a resume endpoint has answered right after its search call returned
searchAnswered ==
    /\ h.pc = "done" /\ h.ep \in {"resume", "resumeMulti"}
    /\ h.calls = <<"search">> /\ call[0].pc = "returned"

\* the allow-list of the resume variant that is answering
allowList == IF h.ep = "resume" THEN broadStates ELSE narrowStates

\* some investor of the search response, whatever its shape, has a state in
\* the allow-list (case-insensitively)
someResumableReturned ==
    \E i \in 1..Len(call[0].data.list) :
        /\ call[0].data.list[i].state # ""
        /\ toLowerCase(call[0].data.list[i].state) \in allowList

\* C22: after a successful search a resume endpoint never answers an error;
\* it answers found = true iff some returned investor has a state in the
\* allow-list, and with found = false the investments are empty or absent.
C22_FoundIffResumable ==
    /\ searchAnswered
       => /\ h.resp.status = 200
          /\ h.resp.body.found <=> someResumableReturned
          /\ (~h.resp.body.found /\ "investments" \in DOMAIN h.resp.body)
             => h.resp.body.investments = <<>>
    /\ (h.pc = "done" /\ h.ep = "resume" /\ h.calls = <<"search", "accessLink">>)
       => /\ h.resp.status = 200 /\ h.resp.body.found
          /\ h.investor.state # "" /\ toLowerCase(h.investor.state) \in broadStates

\* the ids of the investors of the search response that single-result resume
\* is about to read whose state is in its allow-list
resumableIds ==
    {call[0].data.list[i].id :
        i \in {j \in 1..Len(call[0].data.list) :
                 /\ call[0].data.list[j].state # ""
                 /\ toLowerCase(call[0].data.list[j].state) \in broadStates}}

\* C26: when the search answer (a bare array or a data envelope) lists several
\* resumable investors, single-result resume goes on with the one that has the
\* greatest id, in whatever order they are listed, and reports that id.
C26_ResumeReportsGreatestId ==
    [][ /\ ( /\ h.pc = "await" /\ h.ep = "resume" /\ h.calls = <<"search">>
              /\ call[0].pc = "returned" /\ call[0].data.shape # "items"
              /\ Cardinality(resumableIds) > 1
              /\ h' # h )
           => /\ h'.calls = <<"search", "accessLink">>
              /\ h'.investor.id \in resumableIds
              /\ \A id \in resumableIds : id <= h'.investor.id
        /\ ( /\ h.pc = "await" /\ h.ep = "resume" /\ h.calls = <<"search", "accessLink">>
              /\ h'.pc = "done" )
           => h'.resp.body.investorId = h.investor.id ]_vars

\* the investors of a search answer, whatever its shape, whose state is in the
\* narrow allow-list
narrowResumable(data) ==
    {data.list[i] : i \in {j \in 1..Len(data.list) :
                             /\ data.list[j].state # ""
                             /\ toLowerCase(data.list[j].state) \in narrowStates}}

\* early create has received the answer to its search and takes its next step
earlySearchSettles ==
    /\ h.pc = "await" /\ h.ep = "earlyCreate" /\ h.calls = <<"search">>
    /\ call[0].pc = "returned" /\ h' # h

\* C23: early create searches first unless forceCreate is set; when the search
\* returns a resumable investor it answers existingInvestments = true with
\* the resumable investors, greatest id first, and creates nothing; it
\* creates a profile only with forceCreate or after a search without
\* resumable investor, and an investor only after the profile was created,
\* sending that profile's id.
C23_EarlyCreateResumesOrCreates ==
    [][ /\ (h.pc = "idle" /\ h'.ep = "earlyCreate" /\ h'.pc = "await")
           => h'.calls = IF h'.body.forceCreate THEN <<"createProfile">> ELSE <<"search">>
        /\ (earlySearchSettles /\ narrowResumable(call[0].data) # {})
           => /\ h'.pc = "done" /\ h'.calls = <<"search">>
              /\ h'.resp.status = 200 /\ h'.resp.body.existingInvestments
              /\ LET investments == h'.resp.body.investments
                 IN  /\ {investments[i] : i \in 1..Len(investments)}
                            = narrowResumable(call[0].data)
                     /\ \A i \in 1..(Len(investments) - 1) :
                            investments[i].id > investments[i + 1].id
        /\ (earlySearchSettles /\ narrowResumable(call[0].data) = {})
           => h'.calls = <<"search", "createProfile">>
        /\ ( /\ h.ep = "earlyCreate" /\ h.pc = "await" /\ h'.pc = "await"
              /\ h'.calls = Append(h.calls, "createInvestor") )
           => /\ h.calls[Len(h.calls)] = "createProfile" /\ call[0].pc = "returned"
              /\ h'.sent[Len(h'.sent)].data.investor_profile_id = call[0].data.id ]_vars

\* early create answered with two resumable investors that the provider
\* listed smallest id first
C23_Witness ==
    /\ h.pc = "done" /\ h.ep = "earlyCreate" /\ h.calls = <<"search">>
    /\ call[0].pc = "returned" /\ call[0].data.list[1].id = 2
    /\ h.resp.body.existingInvestments
    /\ Len(h.resp.body.investments) = 2
    /\ h.resp.body.investments[1].id = 3

\* the text fields a profile payload of the given type must carry, besides
\* email (a trust also carries trustees)
requiredProfileFields(type) ==
    CASE type = "joint" -> {"first_name", "last_name", "joint_holder_first_name",
                            "joint_holder_last_name"}
      [] type = "corporation" -> {"name", "signing_officer_first_name",
                                  "signing_officer_last_name"}
      [] type = "trust" -> {"name"}
      [] OTHER -> {"first_name", "last_name"}

\* C24: the profile payload that complete and create send carries email and
\* exactly the fields of the investor type, goes to that type's profile
\* endpoint, and none of the type's fields is empty.
C24_ProfilePayloadPerType ==
    (h.ep \in {"complete", "create"} /\ h.calls # <<>> /\ h.calls[1] = "createProfile")
    => LET type == IF h.body.investorType = "" THEN "individual" ELSE h.body.investorType
           req == h.sent[1]
       IN  /\ req.path = CASE type = "joint" -> "/investor_profiles/joints"
                            [] type = "corporation" -> "/investor_profiles/corporations"
                            [] type = "trust" -> "/investor_profiles/trusts"
                            [] OTHER -> "/investor_profiles/individuals"
           /\ DOMAIN req.data = {"email"} \cup requiredProfileFields(type)
                                   \cup (IF type = "trust" THEN {"trustees"} ELSE {})
           /\ \A f \in requiredProfileFields(type) : req.data[f] # ""
           /\ type = "trust"
              => /\ Len(req.data.trustees) = 1
                 /\ DOMAIN req.data.trustees[1] = {"first_name", "last_name"}
                 /\ req.data.trustees[1].first_name # ""
                 /\ req.data.trustees[1].last_name # ""

\* C29: when complete, create or early create answers with an error, the
\* request has created no investor profile at the provider.
C29_ErrorMeansNoProfile ==
    ( /\ h.pc = "done" /\ h.ep \in {"complete", "create", "earlyCreate"}
      /\ "error" \in DOMAIN h.resp.body )
    => /\ h.profileId = 0
       /\ \A i \in 1..(Len(h.calls) - 1) : h.calls[i] # "createProfile"

------------------------------------------------------------------------------
(* Properties of the wizard's submission *)

\* C27: whenever the Payment section issues the completion request, the amount
\* is within [minInvestment, maxInvestment], first and last name are
\* non-blank and the names required by the current investor type are
\* non-blank.
C27_SubmitOnlyValidValues ==
    [][ (~inflight /\ inflight') => (investmentValid /\ contactValid) ]_vars

Init == WizardInit /\ ServerAtRest
SpecWizard == Init /\ [][WizardNext]_vars

=============================================================================
